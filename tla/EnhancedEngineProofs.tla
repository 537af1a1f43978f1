------------------------ MODULE EnhancedEngineProofs ------------------------
(***************************************************************************)
(* Safety of the enhanced engine and of the error recovery under it, for   *)
(* any checks, worker count, breaker configurations, retries and number of *)
(* Runs: the books of the recovery balance, no check is forgotten, and the *)
(* breaker sees nothing but calls its own specification allows.            *)
(***************************************************************************)
EXTENDS EnhancedEngine, FiniteSetTheorems, SequenceTheorems, TLAPS

Counted == {"admit", "blocked", "operation", "backoff", "succeeded", "failed",
            "count success", "count failure"}
Handled == {"handle", "recovered"}
Phases  == {"idle", "enter", "direct", "result", "error"} \cup Counted \cup Handled

RecoveryType ==
    /\ phase \in [Callers -> Phases]
    /\ recovery \in [operations : Nat, blocks : Nat, failures : Nat, successes : Nat,
                     recovered : Nat, unrecovered : Nat]
    /\ totalFailures \in Nat /\ totalSuccesses \in Nat
    /\ state \in {"CLOSED", "OPEN", "HALF_OPEN"}

(* Where Run is, and what it holds there.                                  *)
RunType ==
    /\ rpc \in {"idle", "status", "hung", "parallel", "sequential", "returned", "crashed"}
    /\ workerCount \in Nat
    /\ checks \in Seq(Callers) /\ IsInjective(checks)
    /\ queue \in Seq(Callers) /\ IsInjective(queue)
    /\ rpc = "parallel" => parallel
    /\ rpc = "sequential" => ~parallel
    /\ rpc = "status" => collected = {} /\ failures = {} /\ ~runErr
    /\ sem \subseteq Callers /\ Cardinality(sem) <= workerCount
    /\ wg = waiting \cup sem
    /\ rpc # "parallel" => wg = {} /\ resultsChan = {} /\ errorsChan = {}
    /\ ~channelsOpen => wg = {}

(* The goroutines that have the semaphore and have not sent yet.           *)
Executing == {c \in sem : phase[c] # "idle"}

(* In parallel every check is in exactly one place.                        *)
OnePlace ==
    /\ waiting \cap (sem \cup resultsChan \cup errorsChan \cup collected \cup failures) = {}
    /\ Executing \cap (resultsChan \cup errorsChan \cup collected \cup failures) = {}
    /\ resultsChan \cap (errorsChan \cup collected \cup failures) = {}
    /\ errorsChan \cap (collected \cup failures) = {}
    /\ collected \cap failures = {}
    /\ rpc = "parallel" =>
         waiting \cup Executing \cup resultsChan \cup errorsChan \cup collected \cup failures
            = ToSet(checks)

(* In sequence the queue holds what is neither collected nor failed, all   *)
(* of it while there was no error; the loop goes on only after the error   *)
(* of a check, never after a cancellation.                                 *)
InSequence ==
    rpc = "sequential" =>
        /\ ToSet(queue) \cap (collected \cup failures) = {}
        /\ ~runErr => failures = {} /\ collected \cup ToSet(queue) = ToSet(checks)
        /\ runErr /\ queue # <<>> => failures # {}

(* Only the goroutines that hold the semaphore, or the check at the head   *)
(* of the queue, are executing their check, while the process lives.       *)
OnlyStarted ==
    \A c \in Callers : phase[c] # "idle" =>
        \/ rpc = "parallel" /\ c \in sem
        \/ rpc = "sequential" /\ queue # <<>> /\ c = Head(queue)
        \/ rpc = "crashed"

Returned ==
    rpc = "returned" =>
        /\ ~runErr => collected = ToSet(checks)
        /\ parallel => collected \cup failures = ToSet(checks)

IInv ==
    /\ RecoveryType /\ RecoveryAccounted
    /\ RunType /\ OnePlace /\ InSequence /\ OnlyStarted /\ Returned

-----------------------------------------------------------------------------
(* Counting callers by phase.                                              *)
Ind(x, S) == IF x \in S THEN 1 ELSE 0

(* InPhase is a count.                                                     *)
LEMMA InPhaseNat ==
    ASSUME NEW S
    PROVE  /\ IsFiniteSet({c \in Callers : phase[c] \in S})
           /\ InPhase(S) \in Nat
<1>1. IsFiniteSet({c \in Callers : phase[c] \in S})
  BY FS_Subset, RecoveryAssumption
<1> QED
  BY <1>1, FS_CardinalityType DEF InPhase

(* A caller that moves leaves the count of its old phase and enters that   *)
(* of its new one.                                                         *)
LEMMA InPhaseMove ==
    ASSUME NEW S, NEW c \in Callers, NEW b,
           phase \in [Callers -> Phases], phase' = [phase EXCEPT ![c] = b]
    PROVE  InPhase(S)' = InPhase(S) + Ind(b, S) - Ind(phase[c], S)
<1> DEFINE A == {d \in Callers : phase[d] \in S}
           B == {d \in Callers : phase'[d] \in S}
<1>1. IsFiniteSet(A) /\ Cardinality(A) \in Nat
  BY InPhaseNat, FS_CardinalityType
<1>2. InPhase(S) = Cardinality(A) /\ InPhase(S)' = Cardinality(B)
  BY DEF InPhase
<1>3. \A d \in Callers : phase'[d] = IF d = c THEN b ELSE phase[d]
  OBVIOUS
<1>4. CASE b \in S /\ phase[c] \in S
  <2>1. A = B
    BY <1>3, <1>4
  <2> QED
    BY <2>1, <1>1, <1>2, <1>4 DEF Ind
<1>5. CASE b \notin S /\ phase[c] \notin S
  <2>1. A = B
    BY <1>3, <1>5
  <2> QED
    BY <2>1, <1>1, <1>2, <1>5 DEF Ind
<1>6. CASE b \in S /\ phase[c] \notin S
  <2>1. B = A \cup {c} /\ c \notin A
    BY <1>3, <1>6
  <2>2. Cardinality(B) = Cardinality(A) + 1
    BY <2>1, <1>1, FS_AddElement
  <2> QED
    BY <2>2, <1>1, <1>2, <1>6 DEF Ind
<1>7. CASE b \notin S /\ phase[c] \in S
  <2>1. B = A \ {c} /\ c \in A
    BY <1>3, <1>7
  <2>2. Cardinality(B) = Cardinality(A) - 1
    BY <2>1, <1>1, FS_RemoveElement
  <2> QED
    BY <2>2, <1>1, <1>2, <1>7 DEF Ind
<1> QED
  BY <1>4, <1>5, <1>6, <1>7

(* The four counts RecoveryAccounted is made of, when one caller moves.    *)
LEMMA CountsMove ==
    ASSUME RecoveryType, NEW c \in Callers, NEW b \in Phases,
           phase' = [phase EXCEPT ![c] = b]
    PROVE  /\ phase' \in [Callers -> Phases]
           /\ InPhase(Counted) \in Nat /\ InPhase(Handled) \in Nat
           /\ InPhase({"count failure"}) \in Nat /\ InPhase({"count success"}) \in Nat
           /\ InPhase(Counted)' = InPhase(Counted) + Ind(b, Counted) - Ind(phase[c], Counted)
           /\ InPhase(Handled)' = InPhase(Handled) + Ind(b, Handled) - Ind(phase[c], Handled)
           /\ InPhase({"count failure"})' = InPhase({"count failure"})
                + Ind(b, {"count failure"}) - Ind(phase[c], {"count failure"})
           /\ InPhase({"count success"})' = InPhase({"count success"})
                + Ind(b, {"count success"}) - Ind(phase[c], {"count success"})
<1>1. phase \in [Callers -> Phases]
  BY DEF RecoveryType
<1> QED
  BY <1>1, InPhaseNat, InPhaseMove

-----------------------------------------------------------------------------
(* What the breaker's methods do to what the recovery reads of it.         *)
LEMMA BreakerEffects ==
    ASSUME state \in {"CLOSED", "OPEN", "HALF_OPEN"}, NEW c \in Callers
    PROVE  /\ Breaker!CanExecute(c) =>
                /\ state' \in {"CLOSED", "OPEN", "HALF_OPEN"}
                /\ UNCHANGED <<totalFailures, totalSuccesses>>
           /\ Breaker!RecordSuccess(c) =>
                /\ state' \in {"CLOSED", "OPEN", "HALF_OPEN"}
                /\ totalFailures' = totalFailures
                /\ totalSuccesses' = totalSuccesses + 1
           /\ Breaker!RecordFailure(c) =>
                /\ state' \in {"CLOSED", "OPEN", "HALF_OPEN"}
                /\ totalFailures' = totalFailures + 1
                /\ totalSuccesses' = totalSuccesses
           /\ Breaker!RecoveryTimeoutPasses \/ Breaker!ResetTimeoutPasses =>
                UNCHANGED <<state, totalFailures, totalSuccesses>>
<1> USE DEF Breaker!Stay, Breaker!Enter, Breaker!transitionToOpen,
            Breaker!transitionToHalfOpen, Breaker!transitionToClosed
<1>1. ASSUME Breaker!CanExecute(c)
      PROVE  /\ state' \in {"CLOSED", "OPEN", "HALF_OPEN"}
             /\ UNCHANGED <<totalFailures, totalSuccesses>>
  BY <1>1 DEF Breaker!CanExecute, Breaker!CanExecuteClosed, Breaker!CanExecuteOpen,
              Breaker!CanExecuteHalfOpen
<1>2. ASSUME Breaker!RecordSuccess(c)
      PROVE  /\ state' \in {"CLOSED", "OPEN", "HALF_OPEN"}
             /\ totalFailures' = totalFailures /\ totalSuccesses' = totalSuccesses + 1
  BY <1>2 DEF Breaker!RecordSuccess, Breaker!RecordSuccessClosed,
              Breaker!RecordSuccessHalfOpen, Breaker!RecordSuccessOpen
<1>3. ASSUME Breaker!RecordFailure(c)
      PROVE  /\ state' \in {"CLOSED", "OPEN", "HALF_OPEN"}
             /\ totalFailures' = totalFailures + 1 /\ totalSuccesses' = totalSuccesses
  BY <1>3 DEF Breaker!RecordFailure
<1>4. ASSUME Breaker!RecoveryTimeoutPasses \/ Breaker!ResetTimeoutPasses
      PROVE  UNCHANGED <<state, totalFailures, totalSuccesses>>
  BY <1>4 DEF Breaker!RecoveryTimeoutPasses, Breaker!ResetTimeoutPasses, Breaker!totals
<1> QED
  BY <1>1, <1>2, <1>3, <1>4

Metrics == [operations : Nat, blocks : Nat, failures : Nat, successes : Nat,
            recovered : Nat, unrecovered : Nat]

(* The metrics move by these amounts, in the order of Metrics.             *)
Add(o, b, f, s, r, u) ==
    /\ recovery' \in Metrics
    /\ recovery'.operations = recovery.operations + o
    /\ recovery'.blocks = recovery.blocks + b
    /\ recovery'.failures = recovery.failures + f
    /\ recovery'.successes = recovery.successes + s
    /\ recovery'.recovered = recovery.recovered + r
    /\ recovery'.unrecovered = recovery.unrecovered + u

(* Count adds to one metric, and a step that counts nothing to none.       *)
LEMMA CountAdds ==
    ASSUME recovery \in Metrics
    PROVE  /\ Count("operations") => Add(1, 0, 0, 0, 0, 0)
           /\ Count("blocks") => Add(0, 1, 0, 0, 0, 0)
           /\ Count("failures") => Add(0, 0, 1, 0, 0, 0)
           /\ Count("successes") => Add(0, 0, 0, 1, 0, 0)
           /\ Count("recovered") => Add(0, 0, 0, 0, 1, 0)
           /\ Count("unrecovered") => Add(0, 0, 0, 0, 0, 1)
           /\ UNCHANGED recovery => Add(0, 0, 0, 0, 0, 0)
<1> USE DEF Count, Add, Metrics
<1>1. Count("operations") => Add(1, 0, 0, 0, 0, 0)
  OBVIOUS
<1>2. Count("blocks") => Add(0, 1, 0, 0, 0, 0)
  OBVIOUS
<1>3. Count("failures") => Add(0, 0, 1, 0, 0, 0)
  OBVIOUS
<1>4. Count("successes") => Add(0, 0, 0, 1, 0, 0)
  OBVIOUS
<1>5. Count("recovered") => Add(0, 0, 0, 0, 1, 0)
  OBVIOUS
<1>6. Count("unrecovered") => Add(0, 0, 0, 0, 0, 1)
  OBVIOUS
<1>7. UNCHANGED recovery => Add(0, 0, 0, 0, 0, 0)
  OBVIOUS
<1> QED
  BY <1>1, <1>2, <1>3, <1>4, <1>5, <1>6, <1>7

(* These additions to the metrics, and df and ds to the breaker's totals,  *)
(* are what a move from phase a to phase b calls for.                      *)
Match(a, b, o, k, f, s, r, u, df, ds) ==
    /\ o - k - s - f = Ind(b, Counted) - Ind(a, Counted)
    /\ f - r - u = Ind(b, Handled) - Ind(a, Handled)
    /\ df - f = Ind(b, {"count failure"}) - Ind(a, {"count failure"})
    /\ ds - s = Ind(b, {"count success"}) - Ind(a, {"count success"})

(* The books balance after a move whose additions match its phases.        *)
LEMMA Balances ==
    ASSUME RecoveryType, RecoveryAccounted, NEW c \in Callers, NEW b \in Phases,
           phase' = [phase EXCEPT ![c] = b],
           NEW o \in Nat, NEW k \in Nat, NEW f \in Nat, NEW s \in Nat, NEW r \in Nat,
           NEW u \in Nat, Add(o, k, f, s, r, u),
           NEW df \in Nat, NEW ds \in Nat,
           totalFailures' = totalFailures + df, totalSuccesses' = totalSuccesses + ds,
           state' \in {"CLOSED", "OPEN", "HALF_OPEN"},
           Match(phase[c], b, o, k, f, s, r, u, df, ds)
    PROVE  RecoveryType' /\ RecoveryAccounted'
<1>1. RecoveryType'
  <2>1. recovery' \in Metrics /\ phase' \in [Callers -> Phases]
    BY CountsMove DEF Add
  <2>2. totalFailures' \in Nat /\ totalSuccesses' \in Nat
    BY DEF RecoveryType
  <2> QED
    BY <2>1, <2>2 DEF RecoveryType, Metrics
<1>2. /\ recovery.operations \in Nat /\ recovery.blocks \in Nat /\ recovery.failures \in Nat
      /\ recovery.successes \in Nat /\ recovery.recovered \in Nat
      /\ recovery.unrecovered \in Nat
  BY DEF RecoveryType
<1>3. /\ Ind(b, Counted) \in Nat /\ Ind(phase[c], Counted) \in Nat
      /\ Ind(b, Handled) \in Nat /\ Ind(phase[c], Handled) \in Nat
      /\ Ind(b, {"count failure"}) \in Nat /\ Ind(phase[c], {"count failure"}) \in Nat
      /\ Ind(b, {"count success"}) \in Nat /\ Ind(phase[c], {"count success"}) \in Nat
  BY DEF Ind
<1>4. /\ recovery.operations = recovery.blocks + recovery.successes + recovery.failures
            + InPhase(Counted)
      /\ recovery.failures = recovery.recovered + recovery.unrecovered + InPhase(Handled)
      /\ totalFailures = recovery.failures + InPhase({"count failure"})
      /\ totalSuccesses = recovery.successes + InPhase({"count success"})
  BY DEF RecoveryAccounted, Counted, Handled
<1>5. /\ InPhase(Counted) \in Nat /\ InPhase(Handled) \in Nat
      /\ InPhase({"count failure"}) \in Nat /\ InPhase({"count success"}) \in Nat
      /\ InPhase(Counted)' = InPhase(Counted) + Ind(b, Counted) - Ind(phase[c], Counted)
      /\ InPhase(Handled)' = InPhase(Handled) + Ind(b, Handled) - Ind(phase[c], Handled)
      /\ InPhase({"count failure"})' = InPhase({"count failure"})
           + Ind(b, {"count failure"}) - Ind(phase[c], {"count failure"})
      /\ InPhase({"count success"})' = InPhase({"count success"})
           + Ind(b, {"count success"}) - Ind(phase[c], {"count success"})
  BY CountsMove
<1>6. recovery'.operations = recovery'.blocks + recovery'.successes + recovery'.failures
         + InPhase(Counted)'
  <2> DEFINE n == InPhase(Counted)  ib == Ind(b, Counted)  ia == Ind(phase[c], Counted)
             n1 == InPhase(Counted)'
             R == recovery  R1 == recovery'
  <2>1. o - k - s - f = ib - ia /\ n1 = n + ib - ia
    BY <1>5 DEF Match
  <2>2. /\ R1.operations = R.operations + o /\ R1.blocks = R.blocks + k
        /\ R1.failures = R.failures + f /\ R1.successes = R.successes + s
    BY DEF Add
  <2>3. R.operations = R.blocks + R.successes + R.failures + n
    BY <1>4
  <2>4. n \in Nat /\ ib \in Nat /\ ia \in Nat
    BY <1>3, <1>5
  <2> HIDE DEF n, n1, ib, ia
  <2>5. R1.operations = R1.blocks + R1.successes + R1.failures + n1
    BY <2>1, <2>2, <2>3, <2>4, <1>2
  <2> QED
    BY <2>5 DEF n1
<1>7. recovery'.failures = recovery'.recovered + recovery'.unrecovered + InPhase(Handled)'
  <2> DEFINE n == InPhase(Handled)  ib == Ind(b, Handled)  ia == Ind(phase[c], Handled)
             n1 == InPhase(Handled)'
             x == recovery.failures  y == recovery.recovered  z == recovery.unrecovered
             x1 == recovery'.failures  y1 == recovery'.recovered  z1 == recovery'.unrecovered
  <2>1. f - r - u = ib - ia /\ n1 = n + ib - ia
    BY <1>5 DEF Match
  <2>2. x1 = x + f /\ y1 = y + r /\ z1 = z + u
    BY DEF Add
  <2>3. x = y + z + n
    BY <1>4
  <2>4. n \in Nat /\ ib \in Nat /\ ia \in Nat /\ x \in Nat /\ y \in Nat /\ z \in Nat
    BY <1>2, <1>3, <1>5
  <2> HIDE DEF n, n1, ib, ia, x, y, z, x1, y1, z1
  <2>5. x1 = y1 + z1 + n1
    BY <2>1, <2>2, <2>3, <2>4
  <2> QED
    BY <2>5 DEF n1, x1, y1, z1
<1>8. totalFailures' = recovery'.failures + InPhase({"count failure"})'
  <2> DEFINE S == {"count failure"}
             n == InPhase(S)  ib == Ind(b, S)  ia == Ind(phase[c], S)  n1 == InPhase(S)'
             R == recovery  R1 == recovery'
  <2>1. df - f = ib - ia /\ n1 = n + ib - ia
    BY <1>5 DEF Match
  <2>2. R1.failures = R.failures + f /\ totalFailures = R.failures + n
    BY <1>4 DEF Add
  <2>3. n \in Nat /\ ib \in Nat /\ ia \in Nat
    BY <1>3, <1>5
  <2> HIDE DEF n, n1, ib, ia
  <2>4. totalFailures' = R1.failures + n1
    BY <2>1, <2>2, <2>3, <1>2
  <2> QED
    BY <2>4 DEF n1
<1>9. totalSuccesses' = recovery'.successes + InPhase({"count success"})'
  <2> DEFINE S == {"count success"}
             n == InPhase(S)  ib == Ind(b, S)  ia == Ind(phase[c], S)  n1 == InPhase(S)'
             R == recovery  R1 == recovery'
  <2>1. ds - s = ib - ia /\ n1 = n + ib - ia
    BY <1>5 DEF Match
  <2>2. R1.successes = R.successes + s /\ totalSuccesses = R.successes + n
    BY <1>4 DEF Add
  <2>3. n \in Nat /\ ib \in Nat /\ ia \in Nat
    BY <1>3, <1>5
  <2> HIDE DEF n, n1, ib, ia
  <2>4. totalSuccesses' = R1.successes + n1
    BY <2>1, <2>2, <2>3, <1>2
  <2> QED
    BY <2>4 DEF n1
<1> QED
  BY <1>1, <1>6, <1>7, <1>8, <1>9 DEF RecoveryAccounted, Counted, Handled

(* A step of one caller keeps the books and leaves it inside the call.     *)
LEMMA RecoveryStepAccounted ==
    ASSUME RecoveryType, RecoveryAccounted, NEW c \in Callers, RecoveryStep(c)
    PROVE  /\ RecoveryType' /\ RecoveryAccounted'
           /\ phase[c] # "idle"
           /\ \E b \in Phases \ {"idle"} : phase' = [phase EXCEPT ![c] = b]
<1> DEFINE Goal ==
        /\ RecoveryType' /\ RecoveryAccounted'
        /\ phase[c] # "idle"
        /\ \E b \in Phases \ {"idle"} : phase' = [phase EXCEPT ![c] = b]
<1>r. recovery \in Metrics /\ totalFailures \in Nat /\ totalSuccesses \in Nat
      /\ state \in {"CLOSED", "OPEN", "HALF_OPEN"}
  BY DEF RecoveryType, Metrics
<1>b. UNCHANGED breakerVars => /\ state' \in {"CLOSED", "OPEN", "HALF_OPEN"}
                               /\ totalFailures' = totalFailures + 0
                               /\ totalSuccesses' = totalSuccesses + 0
  BY <1>r DEF breakerVars
<1>1. ASSUME EnterRecovery(c) PROVE Goal
  <2>1. phase[c] = "enter" /\ phase' = [phase EXCEPT ![c] = "admit"]
        /\ UNCHANGED breakerVars
    BY <1>1 DEF EnterRecovery, Go
  <2>2. Add(1, 0, 0, 0, 0, 0)
    BY <1>1, <1>r, CountAdds DEF EnterRecovery
  <2>3. Match("enter", "admit", 1, 0, 0, 0, 0, 0, 0, 0)
    BY DEF Match, Ind, Counted, Handled
  <2> QED
    BY <2>1, <2>2, <2>3, <1>b, Balances DEF Phases, Counted, Handled
<1>2. ASSUME CanExecute(c) PROVE Goal
  <2>1. PICK b \in {"operation", "blocked"} :
          phase[c] = "admit" /\ phase' = [phase EXCEPT ![c] = b] /\ Breaker!CanExecute(c)
    BY <1>2 DEF CanExecute, Go
  <2>2. Add(0, 0, 0, 0, 0, 0)
    BY <1>2, <1>r, CountAdds DEF CanExecute
  <2>3. /\ Match("admit", "operation", 0, 0, 0, 0, 0, 0, 0, 0)
        /\ Match("admit", "blocked", 0, 0, 0, 0, 0, 0, 0, 0)
    BY DEF Match, Ind, Counted, Handled
  <2>4. Match("admit", b, 0, 0, 0, 0, 0, 0, 0, 0)
    BY <2>1, <2>3
  <2>5. /\ state' \in {"CLOSED", "OPEN", "HALF_OPEN"}
        /\ totalFailures' = totalFailures + 0 /\ totalSuccesses' = totalSuccesses + 0
    BY <2>1, <1>r, BreakerEffects
  <2> QED
    BY <2>1, <2>2, <2>4, <2>5, Balances DEF Phases, Counted, Handled
<1>3. ASSUME Blocked(c) PROVE Goal
  <2>1. phase[c] = "blocked" /\ phase' = [phase EXCEPT ![c] = "error"]
        /\ UNCHANGED breakerVars
    BY <1>3 DEF Blocked, Go
  <2>2. Add(0, 1, 0, 0, 0, 0)
    BY <1>3, <1>r, CountAdds DEF Blocked
  <2>3. Match("blocked", "error", 0, 1, 0, 0, 0, 0, 0, 0)
    BY DEF Match, Ind, Counted, Handled
  <2> QED
    BY <2>1, <2>2, <2>3, <1>b, Balances DEF Phases, Counted, Handled
<1>4. ASSUME OperationSucceeds(c) PROVE Goal
  <2>1. phase[c] = "operation" /\ phase' = [phase EXCEPT ![c] = "succeeded"]
        /\ UNCHANGED breakerVars
    BY <1>4 DEF OperationSucceeds, Go
  <2>2. Add(0, 0, 0, 0, 0, 0)
    BY <1>4, <1>r, CountAdds DEF OperationSucceeds
  <2>3. Match("operation", "succeeded", 0, 0, 0, 0, 0, 0, 0, 0)
    BY DEF Match, Ind, Counted, Handled
  <2> QED
    BY <2>1, <2>2, <2>3, <1>b, Balances DEF Phases, Counted, Handled
<1>5. ASSUME NEW e \in Errors, OperationFails(c, e) PROVE Goal
  <2>1. PICK b \in {"backoff", "failed"} :
          phase[c] = "operation" /\ phase' = [phase EXCEPT ![c] = b] /\ UNCHANGED breakerVars
    BY <1>5 DEF OperationFails, Go
  <2>2. Add(0, 0, 0, 0, 0, 0)
    BY <1>5, <1>r, CountAdds DEF OperationFails
  <2>3. /\ Match("operation", "backoff", 0, 0, 0, 0, 0, 0, 0, 0)
        /\ Match("operation", "failed", 0, 0, 0, 0, 0, 0, 0, 0)
    BY DEF Match, Ind, Counted, Handled
  <2>4. Match("operation", b, 0, 0, 0, 0, 0, 0, 0, 0)
    BY <2>1, <2>3
  <2> QED
    BY <2>1, <2>2, <2>4, <1>b, Balances DEF Phases, Counted, Handled
<1>6. ASSUME Backoff(c) PROVE Goal
  <2>1. PICK b \in {"failed", "operation"} :
          phase[c] = "backoff" /\ phase' = [phase EXCEPT ![c] = b] /\ UNCHANGED breakerVars
    BY <1>6 DEF Backoff, Go
  <2>2. Add(0, 0, 0, 0, 0, 0)
    BY <1>6, <1>r, CountAdds DEF Backoff
  <2>3. /\ Match("backoff", "failed", 0, 0, 0, 0, 0, 0, 0, 0)
        /\ Match("backoff", "operation", 0, 0, 0, 0, 0, 0, 0, 0)
    BY DEF Match, Ind, Counted, Handled
  <2>4. Match("backoff", b, 0, 0, 0, 0, 0, 0, 0, 0)
    BY <2>1, <2>3
  <2> QED
    BY <2>1, <2>2, <2>4, <1>b, Balances DEF Phases, Counted, Handled
<1>7. ASSUME RecordSuccess(c) PROVE Goal
  <2>1. phase[c] = "succeeded" /\ phase' = [phase EXCEPT ![c] = "count success"]
        /\ Breaker!RecordSuccess(c)
    BY <1>7 DEF RecordSuccess, Go
  <2>2. Add(0, 0, 0, 0, 0, 0)
    BY <1>7, <1>r, CountAdds DEF RecordSuccess
  <2>3. Match("succeeded", "count success", 0, 0, 0, 0, 0, 0, 0, 1)
    BY DEF Match, Ind, Counted, Handled
  <2>4. /\ state' \in {"CLOSED", "OPEN", "HALF_OPEN"}
        /\ totalFailures' = totalFailures /\ totalSuccesses' = totalSuccesses + 1
    BY <2>1, <1>r, BreakerEffects
  <2>5. /\ state' \in {"CLOSED", "OPEN", "HALF_OPEN"}
        /\ totalFailures' = totalFailures + 0 /\ totalSuccesses' = totalSuccesses + 1
    BY <2>4, <1>r
  <2> QED
    BY <2>1, <2>2, <2>3, <2>5, Balances DEF Phases, Counted, Handled
<1>8. ASSUME CountSuccess(c) PROVE Goal
  <2>1. phase[c] = "count success" /\ phase' = [phase EXCEPT ![c] = "result"]
        /\ UNCHANGED breakerVars
    BY <1>8 DEF CountSuccess, Go
  <2>2. Add(0, 0, 0, 1, 0, 0)
    BY <1>8, <1>r, CountAdds DEF CountSuccess
  <2>3. Match("count success", "result", 0, 0, 0, 1, 0, 0, 0, 0)
    BY DEF Match, Ind, Counted, Handled
  <2> QED
    BY <2>1, <2>2, <2>3, <1>b, Balances DEF Phases, Counted, Handled
<1>9. ASSUME RecordFailure(c) PROVE Goal
  <2>1. phase[c] = "failed" /\ phase' = [phase EXCEPT ![c] = "count failure"]
        /\ Breaker!RecordFailure(c)
    BY <1>9 DEF RecordFailure, Go
  <2>2. Add(0, 0, 0, 0, 0, 0)
    BY <1>9, <1>r, CountAdds DEF RecordFailure
  <2>3. Match("failed", "count failure", 0, 0, 0, 0, 0, 0, 1, 0)
    BY DEF Match, Ind, Counted, Handled
  <2>4. /\ state' \in {"CLOSED", "OPEN", "HALF_OPEN"}
        /\ totalFailures' = totalFailures + 1 /\ totalSuccesses' = totalSuccesses
    BY <2>1, <1>r, BreakerEffects
  <2>5. /\ state' \in {"CLOSED", "OPEN", "HALF_OPEN"}
        /\ totalFailures' = totalFailures + 1 /\ totalSuccesses' = totalSuccesses + 0
    BY <2>4, <1>r
  <2> QED
    BY <2>1, <2>2, <2>3, <2>5, Balances DEF Phases, Counted, Handled
<1>10. ASSUME CountFailure(c) PROVE Goal
  <2>1. phase[c] = "count failure" /\ phase' = [phase EXCEPT ![c] = "handle"]
        /\ UNCHANGED breakerVars
    BY <1>10 DEF CountFailure, Go
  <2>2. Add(0, 0, 1, 0, 0, 0)
    BY <1>10, <1>r, CountAdds DEF CountFailure
  <2>3. Match("count failure", "handle", 0, 0, 1, 0, 0, 0, 0, 0)
    BY DEF Match, Ind, Counted, Handled
  <2> QED
    BY <2>1, <2>2, <2>3, <1>b, Balances DEF Phases, Counted, Handled
<1>11. ASSUME HandleError(c) PROVE Goal
  <2>1. phase[c] = "handle" /\ UNCHANGED breakerVars
    BY <1>11 DEF HandleError
  <2>2. PICK ok \in executeRecoveryStrategy(lastError[c]) :
          IF ok THEN Go(c, "recovered") /\ UNCHANGED recovery
          ELSE Go(c, "error") /\ Count("unrecovered")
    BY <1>11 DEF HandleError
  <2>3. CASE Go(c, "recovered") /\ UNCHANGED recovery
    <3>1. phase' = [phase EXCEPT ![c] = "recovered"] /\ Add(0, 0, 0, 0, 0, 0)
      BY <2>3, <1>r, CountAdds DEF Go
    <3>2. Match("handle", "recovered", 0, 0, 0, 0, 0, 0, 0, 0)
      BY DEF Match, Ind, Counted, Handled
    <3> QED
      BY <2>1, <3>1, <3>2, <1>b, Balances DEF Phases, Counted, Handled
  <2>4. CASE Go(c, "error") /\ Count("unrecovered")
    <3>1. phase' = [phase EXCEPT ![c] = "error"] /\ Add(0, 0, 0, 0, 0, 1)
      BY <2>4, <1>r, CountAdds DEF Go
    <3>2. Match("handle", "error", 0, 0, 0, 0, 0, 1, 0, 0)
      BY DEF Match, Ind, Counted, Handled
    <3> QED
      BY <2>1, <3>1, <3>2, <1>b, Balances DEF Phases, Counted, Handled
  <2> QED
    BY <2>2, <2>3, <2>4
<1>12. ASSUME CountRecovery(c) PROVE Goal
  <2>1. phase[c] = "recovered" /\ phase' = [phase EXCEPT ![c] = "error"]
        /\ UNCHANGED breakerVars
    BY <1>12 DEF CountRecovery, Go
  <2>2. Add(0, 0, 0, 0, 1, 0)
    BY <1>12, <1>r, CountAdds DEF CountRecovery
  <2>3. Match("recovered", "error", 0, 0, 0, 0, 1, 0, 0, 0)
    BY DEF Match, Ind, Counted, Handled
  <2> QED
    BY <2>1, <2>2, <2>3, <1>b, Balances DEF Phases, Counted, Handled
<1> HIDE DEF Goal
<1>13. Goal
  BY <1>1, <1>2, <1>3, <1>4, <1>5, <1>6, <1>7, <1>8, <1>9, <1>10, <1>11, <1>12
     DEF RecoveryStep
<1> QED
  BY <1>13 DEF Goal

(* ExecuteWithRecovery begins and ends outside all the books.              *)
LEMMA BeginAccounted ==
    ASSUME RecoveryType, RecoveryAccounted, NEW c \in Callers,
           Begin(c), phase[c] = "idle"
    PROVE  RecoveryType' /\ RecoveryAccounted'
<1>1. PICK b \in {"enter", "direct"} :
        phase' = [phase EXCEPT ![c] = b] /\ UNCHANGED breakerVars /\ UNCHANGED recovery
  BY DEF Begin
<1>2. Add(0, 0, 0, 0, 0, 0)
  BY <1>1, CountAdds DEF RecoveryType, Metrics
<1>3. /\ Match("idle", "enter", 0, 0, 0, 0, 0, 0, 0, 0)
      /\ Match("idle", "direct", 0, 0, 0, 0, 0, 0, 0, 0)
  BY DEF Match, Ind, Counted, Handled
<1>4. /\ state' \in {"CLOSED", "OPEN", "HALF_OPEN"}
      /\ totalFailures' = totalFailures + 0 /\ totalSuccesses' = totalSuccesses + 0
  BY <1>1 DEF breakerVars, RecoveryType
<1> QED
  BY <1>1, <1>2, <1>3, <1>4, Balances DEF Phases

LEMMA FinishAccounted ==
    ASSUME RecoveryType, RecoveryAccounted, NEW c \in Callers,
           Finish(c), phase[c] \in {"result", "error"}
    PROVE  RecoveryType' /\ RecoveryAccounted'
<1>1. phase' = [phase EXCEPT ![c] = "idle"] /\ UNCHANGED breakerVars /\ UNCHANGED recovery
  BY DEF Finish
<1>2. Add(0, 0, 0, 0, 0, 0)
  BY <1>1, CountAdds DEF RecoveryType, Metrics
<1>3. /\ Match("result", "idle", 0, 0, 0, 0, 0, 0, 0, 0)
      /\ Match("error", "idle", 0, 0, 0, 0, 0, 0, 0, 0)
  BY DEF Match, Ind, Counted, Handled
<1>4. /\ state' \in {"CLOSED", "OPEN", "HALF_OPEN"}
      /\ totalFailures' = totalFailures + 0 /\ totalSuccesses' = totalSuccesses + 0
  BY <1>1 DEF breakerVars, RecoveryType
<1> QED
  BY <1>1, <1>2, <1>3, <1>4, Balances DEF Phases

(* So does a check called without recovery.                                *)
LEMMA DirectAccounted ==
    ASSUME RecoveryType, RecoveryAccounted, NEW c \in Callers, RunDirectly(c)
    PROVE  /\ RecoveryType' /\ RecoveryAccounted'
           /\ phase[c] # "idle"
           /\ \E b \in Phases \ {"idle"} : phase' = [phase EXCEPT ![c] = b]
<1>1. PICK b \in {"result", "error"} :
        /\ phase[c] = "direct" /\ phase' = [phase EXCEPT ![c] = b]
        /\ UNCHANGED breakerVars /\ UNCHANGED recovery
  BY DEF RunDirectly
<1>2. Add(0, 0, 0, 0, 0, 0)
  BY <1>1, CountAdds DEF RecoveryType, Metrics
<1>3. /\ Match("direct", "result", 0, 0, 0, 0, 0, 0, 0, 0)
      /\ Match("direct", "error", 0, 0, 0, 0, 0, 0, 0, 0)
  BY DEF Match, Ind, Counted, Handled
<1>4. /\ state' \in {"CLOSED", "OPEN", "HALF_OPEN"}
      /\ totalFailures' = totalFailures + 0 /\ totalSuccesses' = totalSuccesses + 0
  BY <1>1 DEF breakerVars, RecoveryType
<1> QED
  BY <1>1, <1>2, <1>3, <1>4, Balances DEF Phases

(* Nothing else touches them.                                              *)
LEMMA RestAccounted ==
    ASSUME RecoveryType, RecoveryAccounted, UNCHANGED recoveryVars \/ TimePasses
    PROVE  RecoveryType' /\ RecoveryAccounted' /\ phase' = phase
<1>1. UNCHANGED <<phase, recovery, totalFailures, totalSuccesses, state>>
  <2>1. CASE UNCHANGED recoveryVars
    BY <2>1 DEF recoveryVars, breakerVars
  <2>2. CASE TimePasses
    BY <2>2 DEF TimePasses, Breaker!RecoveryTimeoutPasses, Breaker!ResetTimeoutPasses,
                Breaker!totals
  <2> QED
    BY <2>1, <2>2
<1> QED
  BY <1>1 DEF RecoveryType, RecoveryAccounted, InPhase

-----------------------------------------------------------------------------
(* Taking the head off a queue without repetitions.                        *)
LEMMA HeadAndTail ==
    ASSUME NEW q \in Seq(Callers), q # <<>>, IsInjective(q)
    PROVE  /\ Head(q) \in Callers /\ Tail(q) \in Seq(Callers) /\ IsInjective(Tail(q))
           /\ ToSet(q) = {Head(q)} \cup ToSet(Tail(q))
           /\ Head(q) \notin ToSet(Tail(q))
<1>1. /\ Len(q) \in Nat /\ Len(q) > 0 /\ DOMAIN q = 1..Len(q)
      /\ \A i \in 1..Len(q) : q[i] \in Callers
  BY EmptySeq, LenProperties, ElementOfSeq
<1>2. /\ Head(q) = q[1] /\ Tail(q) \in Seq(Callers)
      /\ Len(Tail(q)) = Len(q) - 1
      /\ \A i \in 1..Len(Tail(q)) : Tail(q)[i] = q[i + 1]
  BY HeadTailProperties
<1>3. DOMAIN Tail(q) = 1..(Len(q) - 1)
  BY <1>2, LenProperties
<1> DEFINE t == Tail(q)
<1> HIDE DEF t
<1>4. /\ DOMAIN t = 1..(Len(q) - 1)
      /\ \A i \in 1..(Len(q) - 1) : t[i] = q[i + 1]
  BY <1>2, <1>3 DEF t
<1>5. IsInjective(t)
  BY <1>1, <1>4 DEF IsInjective
<1>6. ToSet(q) = {q[1]} \cup ToSet(t)
  <2>1. ASSUME NEW i \in 1..Len(q) PROVE q[i] \in {q[1]} \cup ToSet(t)
    <3>1. CASE i = 1
      BY <3>1
    <3>2. CASE i # 1
      <4>1. i - 1 \in DOMAIN t /\ t[i - 1] = q[i]
        BY <1>1, <1>4, <3>2
      <4> QED
        BY <4>1 DEF ToSet
    <3> QED
      BY <3>1, <3>2
  <2>2. ASSUME NEW i \in DOMAIN t PROVE t[i] \in ToSet(q)
    <3>1. i + 1 \in DOMAIN q /\ t[i] = q[i + 1]
      BY <1>1, <1>4
    <3> QED
      BY <3>1 DEF ToSet
  <2>3. q[1] \in ToSet(q)
    BY <1>1 DEF ToSet
  <2> QED
    BY <2>1, <2>2, <2>3, <1>1 DEF ToSet
<1>7. q[1] \notin ToSet(t)
  BY <1>1, <1>4 DEF ToSet, IsInjective
<1> QED
  BY <1>1, <1>2, <1>5, <1>6, <1>7 DEF t

-----------------------------------------------------------------------------
(* Between two Runs, and until its goroutines start, no caller is active.  *)
LEMMA NoneActive ==
    ASSUME RunType, OnlyStarted, rpc \in {"idle", "status", "returned"}, NEW c \in Callers
    PROVE  phase[c] = "idle"
  BY DEF RunType, OnlyStarted

LEMMA InitIInv == Init => IInv
<1> SUFFICES ASSUME Init PROVE IInv
  OBVIOUS
<1>1. RecoveryType
  BY DEF Init, RecoveryInit, Breaker!Init, RecoveryType, Phases
<1>2. RecoveryAccounted
  <2>1. \A S : "idle" \notin S => {c \in Callers : phase[c] \in S} = {}
    BY DEF Init, RecoveryInit
  <2>2. InPhase(Counted) = 0 /\ InPhase(Handled) = 0
        /\ InPhase({"count failure"}) = 0 /\ InPhase({"count success"}) = 0
    BY <2>1, FS_EmptySet DEF InPhase, Counted, Handled
  <2>3. totalFailures = 0 /\ totalSuccesses = 0
    BY DEF Init, RecoveryInit, Breaker!Init
  <2>4. /\ recovery.operations = 0 /\ recovery.blocks = 0 /\ recovery.failures = 0
        /\ recovery.successes = 0 /\ recovery.recovered = 0 /\ recovery.unrecovered = 0
    BY DEF Init, RecoveryInit
  <2>5. RecoveryAccounted <=>
          /\ recovery.operations = recovery.blocks + recovery.successes + recovery.failures
               + InPhase(Counted)
          /\ recovery.failures = recovery.recovered + recovery.unrecovered
               + InPhase(Handled)
          /\ totalFailures = recovery.failures + InPhase({"count failure"})
          /\ totalSuccesses = recovery.successes + InPhase({"count success"})
    BY DEF RecoveryAccounted, Counted, Handled
  <2>6. /\ 0 = 0 + 0 + 0 + 0 /\ 0 = 0 + 0 + 0 /\ 0 = 0 + 0
    OBVIOUS
  <2> QED
    BY <2>2, <2>3, <2>4, <2>5, <2>6, Zenon
<1>3. Cardinality({}) = 0
  BY FS_EmptySet
<1>4. RunType
  BY <1>3, EnhancedAssumption, EmptySeq DEF Init, RunType, IsInjective
<1>5. OnePlace /\ InSequence /\ OnlyStarted /\ Returned
  BY DEF Init, RecoveryInit, OnePlace, InSequence, OnlyStarted, Returned
<1> QED
  BY <1>1, <1>2, <1>4, <1>5 DEF IInv

LEMMA RunIInv == ASSUME IInv, Run PROVE IInv'
<1>1. RecoveryType' /\ RecoveryAccounted' /\ phase' = phase
  BY RestAccounted DEF IInv, Run
<1>2. \A c \in Callers : phase'[c] = "idle"
  BY <1>1, NoneActive DEF IInv, Run
<1>3. /\ rpc # "parallel" /\ rpc' = "status" /\ checks' \in Filtered
      /\ collected' = {} /\ failures' = {} /\ runErr' = FALSE
      /\ UNCHANGED <<parallel, workerCount, queue, wg, waiting, sem, resultsChan,
                     errorsChan, channelsOpen>>
  BY DEF Run, settings, chanVars
<1>4. checks' \in Seq(Callers) /\ IsInjective(checks')
  BY <1>3, EnhancedAssumption
<1>5. wg = {} /\ waiting = {} /\ sem = {} /\ resultsChan = {} /\ errorsChan = {}
  BY <1>3 DEF IInv, RunType
<1>6. RunType'
  BY <1>3, <1>4, <1>5 DEF IInv, RunType
<1>7. OnePlace'
  BY <1>3, <1>5 DEF OnePlace, Executing
<1>8. InSequence' /\ OnlyStarted' /\ Returned'
  BY <1>2, <1>3 DEF InSequence, OnlyStarted, Returned
<1> QED
  BY <1>1, <1>6, <1>7, <1>8 DEF IInv

(* The checks start, or the call before them never returns.                *)
LEMMA StartIInv == ASSUME IInv, StartChecks \/ StatusHangs PROVE IInv'
<1>1. RecoveryType' /\ RecoveryAccounted' /\ phase' = phase
  BY RestAccounted DEF IInv, StartChecks, StatusHangs
<1>2. \A c \in Callers : phase'[c] = "idle"
  BY <1>1, NoneActive DEF IInv, StartChecks, StatusHangs
<1>3. /\ rpc = "status" /\ collected = {} /\ failures = {} /\ ~runErr
      /\ wg = {} /\ waiting = {} /\ sem = {} /\ resultsChan = {} /\ errorsChan = {}
  BY DEF IInv, RunType, StartChecks, StatusHangs
<1>4. UNCHANGED <<parallel, workerCount, checks, collected, failures, runErr>>
  BY DEF StartChecks, StatusHangs, settings
<1>5. CASE StatusHangs
  <2>1. rpc' = "hung" /\ UNCHANGED <<queue, wg, waiting, sem, resultsChan, errorsChan,
                                     channelsOpen>>
    BY <1>5 DEF StatusHangs, chanVars
  <2>2. RunType' /\ OnePlace'
    BY <1>3, <1>4, <2>1 DEF IInv, RunType, OnePlace, Executing
  <2>3. InSequence' /\ OnlyStarted' /\ Returned'
    BY <1>2, <2>1 DEF InSequence, OnlyStarted, Returned
  <2> QED
    BY <1>1, <2>2, <2>3 DEF IInv
<1>6. CASE StartChecks /\ parallel
  <2>1. /\ rpc' = "parallel" /\ queue' = queue
        /\ wg' = ToSet(checks) /\ waiting' = ToSet(checks) /\ sem' = {}
        /\ resultsChan' = {} /\ errorsChan' = {} /\ channelsOpen' = TRUE
    BY <1>6 DEF StartChecks
  <2>2. Cardinality(sem') <= workerCount'
    BY <1>3, <1>4, <2>1 DEF IInv, RunType
  <2>3. RunType'
    BY <1>3, <1>4, <1>6, <2>1, <2>2 DEF IInv, RunType
  <2>4. OnePlace'
    BY <1>3, <1>4, <2>1 DEF OnePlace, Executing
  <2>5. InSequence' /\ OnlyStarted' /\ Returned'
    BY <1>2, <2>1 DEF InSequence, OnlyStarted, Returned
  <2> QED
    BY <1>1, <2>3, <2>4, <2>5 DEF IInv
<1>7. CASE StartChecks /\ ~parallel
  <2>1. /\ rpc' = "sequential" /\ queue' = checks
        /\ UNCHANGED <<wg, waiting, sem, resultsChan, errorsChan, channelsOpen>>
    BY <1>7 DEF StartChecks, chanVars
  <2>2. RunType'
    BY <1>3, <1>4, <1>7, <2>1 DEF IInv, RunType
  <2>3. OnePlace'
    BY <1>3, <1>4, <2>1 DEF OnePlace, Executing
  <2>4. InSequence' /\ OnlyStarted' /\ Returned'
    BY <1>2, <1>3, <1>4, <2>1 DEF InSequence, OnlyStarted, Returned
  <2> QED
    BY <1>1, <2>2, <2>3, <2>4 DEF IInv
<1> QED
  BY <1>5, <1>6, <1>7

(* A panic leaves nothing behind.                                          *)
LEMMA PanicIInv == ASSUME IInv, NEW c \in Callers, CheckPanics(c) PROVE IInv'
<1>1. RecoveryType' /\ RecoveryAccounted' /\ phase' = phase
  BY RestAccounted DEF IInv, CheckPanics
<1>2. /\ rpc' = "crashed" /\ queue' = <<>> /\ wg' = {} /\ waiting' = {} /\ sem' = {}
      /\ resultsChan' = {} /\ errorsChan' = {}
      /\ UNCHANGED <<parallel, workerCount, checks, collected, failures, runErr>>
  BY DEF CheckPanics, settings
<1>3. <<>> \in Seq(Callers) /\ IsInjective(<<>>)
  BY EmptySeq DEF IsInjective
<1>4. Cardinality({}) = 0
  BY FS_EmptySet
<1>5. RunType'
  BY <1>2, <1>3, <1>4 DEF IInv, RunType
<1>6. OnePlace'
  BY <1>2 DEF IInv, OnePlace, Executing
<1>7. InSequence' /\ OnlyStarted' /\ Returned'
  BY <1>2 DEF InSequence, OnlyStarted, Returned
<1> QED
  BY <1>1, <1>5, <1>6, <1>7 DEF IInv

-----------------------------------------------------------------------------
(* The parallel Run.                                                       *)
LEMMA AcquireIInv == ASSUME IInv, NEW c \in Callers, Acquire(c) PROVE IInv'
<1>1. rpc = "parallel" /\ c \notin sem /\ IsFiniteSet(sem) /\ channelsOpen
  <2>1. rpc = "parallel" /\ c \notin sem /\ channelsOpen /\ sem \subseteq Callers
    BY DEF IInv, RunType, OnePlace, Acquire
  <2> QED
    BY <2>1, FS_Subset, RecoveryAssumption
<1>2. phase[c] = "idle"
  BY <1>1 DEF IInv, OnlyStarted
<1>3. RecoveryType' /\ RecoveryAccounted'
  BY <1>2, BeginAccounted DEF IInv, Acquire
<1>4. /\ waiting' = waiting \ {c} /\ sem' = sem \cup {c} /\ Cardinality(sem) < workerCount
      /\ c \in waiting
      /\ UNCHANGED <<parallel, workerCount, rpc, checks, queue, wg, resultsChan, errorsChan,
                     channelsOpen, collected, failures, runErr>>
  BY DEF Acquire, settings
<1>5. Cardinality(sem') <= workerCount
  <2>1. Cardinality(sem \cup {c}) = Cardinality(sem) + 1 /\ Cardinality(sem) \in Nat
    BY <1>1, FS_AddElement, FS_CardinalityType
  <2>2. workerCount \in Nat
    BY DEF IInv, RunType
  <2> QED
    BY <2>1, <2>2, <1>4
<1>6. RunType'
  <2>1. wg' = waiting' \cup sem' /\ sem' \subseteq Callers
    BY <1>4 DEF IInv, RunType
  <2> QED
    BY <2>1, <1>1, <1>4, <1>5 DEF IInv, RunType
<1>7. phase'[c] # "idle" /\ \A d \in Callers : d # c => phase'[d] = phase[d]
  BY DEF Acquire, Begin, IInv, RecoveryType
<1>8. Executing' = Executing \cup {c}
  BY <1>2, <1>4, <1>6, <1>7 DEF Executing, IInv, RunType
<1>9. OnePlace'
  <2> HIDE DEF Executing
  <2> QED
    BY <1>4, <1>8 DEF IInv, OnePlace
<1>10. InSequence' /\ Returned'
  BY <1>1, <1>4 DEF InSequence, Returned
<1>11. OnlyStarted'
  BY <1>1, <1>4, <1>7 DEF IInv, OnlyStarted
<1> QED
  BY <1>3, <1>6, <1>9, <1>10, <1>11 DEF IInv

LEMMA SendIInv == ASSUME IInv, NEW c \in Callers, Send(c) PROVE IInv'
<1>1. c \in sem /\ phase[c] \in {"result", "error"} /\ rpc = "parallel" /\ channelsOpen
  BY DEF IInv, RunType, Send
<1>2. RecoveryType' /\ RecoveryAccounted'
  BY FinishAccounted DEF IInv, Send
<1>3. /\ \/ resultsChan' = resultsChan \cup {c} /\ errorsChan' = errorsChan
         \/ errorsChan' = errorsChan \cup {c} /\ resultsChan' = resultsChan
      /\ UNCHANGED <<parallel, workerCount, rpc, checks, queue, wg, waiting, sem,
                     channelsOpen, collected, failures, runErr>>
  BY DEF Send, settings
<1>4. RunType'
  BY <1>1, <1>3 DEF IInv, RunType
<1>5. phase'[c] = "idle" /\ \A d \in Callers : d # c => phase'[d] = phase[d]
  BY DEF Send, Finish, IInv, RecoveryType
<1>6. Executing' = Executing \ {c} /\ c \in Executing
  BY <1>1, <1>3, <1>5 DEF Executing, IInv, RunType
<1>7. waiting \cap sem = {}
  BY DEF IInv, OnePlace
<1>8. OnePlace'
  <2> HIDE DEF Executing
  <2> QED
    BY <1>1, <1>3, <1>6, <1>7 DEF IInv, OnePlace
<1>9. InSequence' /\ Returned'
  BY <1>1, <1>3 DEF InSequence, Returned
<1>10. OnlyStarted'
  BY <1>1, <1>3, <1>5 DEF IInv, OnlyStarted
<1> QED
  BY <1>2, <1>4, <1>8, <1>9, <1>10 DEF IInv

(* A goroutine leaves after it has sent.                                   *)
LEMMA LeaveIInv == ASSUME IInv, NEW c \in Callers, Leave(c) PROVE IInv'
<1>1. /\ c \in sem /\ phase[c] = "idle" /\ sem' = sem \ {c} /\ wg' = wg \ {c}
      /\ UNCHANGED <<parallel, workerCount, rpc, checks, queue, waiting, resultsChan,
                     errorsChan, channelsOpen, collected, failures, runErr>>
  BY DEF Leave, settings
<1>2. RecoveryType' /\ RecoveryAccounted' /\ phase' = phase
  BY RestAccounted DEF IInv, Leave
<1>3. rpc = "parallel" /\ channelsOpen /\ c \notin waiting /\ IsFiniteSet(sem)
  <2>1. sem \subseteq Callers
    BY DEF IInv, RunType
  <2> QED
    BY <1>1, <2>1, FS_Subset, RecoveryAssumption DEF IInv, RunType, OnePlace
<1>4. Cardinality(sem') <= workerCount'
  <2>1. Cardinality(sem \ {c}) <= Cardinality(sem)
        /\ Cardinality(sem) \in Nat /\ Cardinality(sem \ {c}) \in Nat
    BY <1>3, FS_Subset, FS_CardinalityType
  <2> QED
    BY <1>1, <2>1 DEF IInv, RunType
<1>5. RunType'
  <2>1. wg' = waiting' \cup sem' /\ sem' \subseteq Callers
    BY <1>1, <1>3 DEF IInv, RunType
  <2> QED
    BY <1>1, <1>3, <1>4, <2>1 DEF IInv, RunType
<1>6. Executing' = Executing
  BY <1>1, <1>2 DEF Executing
<1>7. OnePlace'
  <2> HIDE DEF Executing
  <2> QED
    BY <1>1, <1>6 DEF IInv, OnePlace
<1>8. InSequence' /\ OnlyStarted' /\ Returned'
  BY <1>1, <1>2, <1>3 DEF IInv, InSequence, OnlyStarted, Returned
<1> QED
  BY <1>2, <1>5, <1>7, <1>8 DEF IInv

LEMMA CollectorIInv ==
    ASSUME IInv,
           \/ \E c \in Callers : CollectResult(c) \/ CollectError(c)
           \/ CloseChannels \/ CollectorEnds
    PROVE  IInv'
<1>1. RecoveryType' /\ RecoveryAccounted' /\ phase' = phase
  BY RestAccounted DEF IInv, CollectResult, CollectError, CloseChannels, CollectorEnds
<1> USE <1>1 DEF IInv, RunType, OnePlace, Executing, InSequence, OnlyStarted, Returned,
                 settings
<1>2. ASSUME NEW c \in Callers, CollectResult(c) PROVE IInv'
  BY <1>2 DEF CollectResult
<1>3. ASSUME NEW c \in Callers, CollectError(c) PROVE IInv'
  BY <1>3 DEF CollectError
<1>4. CASE CloseChannels
  BY <1>4 DEF CloseChannels
<1>5. CASE CollectorEnds
  BY <1>5 DEF CollectorEnds, chanVars
<1> QED
  BY <1>2, <1>3, <1>4, <1>5

-----------------------------------------------------------------------------
(* The sequential Run.                                                     *)
LEMMA NextCheckIInv == ASSUME IInv, NextCheck PROVE IInv'
<1>1. Head(queue) \in Callers
  BY HeadAndTail DEF IInv, RunType, NextCheck
<1>2. RecoveryType' /\ RecoveryAccounted'
  BY <1>1, BeginAccounted DEF IInv, NextCheck
<1>3. UNCHANGED <<parallel, workerCount, rpc, checks, queue, wg, waiting, sem, resultsChan,
                  errorsChan, channelsOpen, collected, failures, runErr>>
  BY DEF NextCheck, chanVars, settings
<1>4. RunType' /\ InSequence' /\ Returned'
  BY <1>3 DEF IInv, RunType, InSequence, Returned
<1>5. OnePlace'
  <2>1. sem = {} /\ sem' = {}
    BY <1>3 DEF NextCheck, IInv, RunType
  <2> QED
    BY <1>3, <2>1 DEF IInv, OnePlace, Executing
<1>6. OnlyStarted'
  <2>1. \A d \in Callers : d # Head(queue) => phase'[d] = "idle"
    BY DEF NextCheck, Begin, IInv, RecoveryType
  <2> QED
    BY <2>1, <1>3 DEF NextCheck, OnlyStarted
<1> QED
  BY <1>2, <1>4, <1>5, <1>6 DEF IInv

LEMMA CheckDoneIInv == ASSUME IInv, NEW c \in Callers, CheckDone(c) PROVE IInv'
<1>1. rpc = "sequential" /\ queue # <<>> /\ c = Head(queue)
  BY DEF CheckDone, IInv, OnlyStarted
<1>2. /\ Tail(queue) \in Seq(Callers) /\ IsInjective(Tail(queue))
      /\ ToSet(queue) = {c} \cup ToSet(Tail(queue)) /\ c \notin ToSet(Tail(queue))
  BY <1>1, HeadAndTail DEF IInv, RunType
<1>3. RecoveryType' /\ RecoveryAccounted'
  BY FinishAccounted DEF IInv, CheckDone
<1>4. UNCHANGED <<parallel, workerCount, rpc, checks, wg, waiting, sem, resultsChan, errorsChan,
                  channelsOpen>>
  BY DEF CheckDone, chanVars, settings
<1>5. wg = {} /\ waiting = {} /\ sem = {} /\ resultsChan = {} /\ errorsChan = {}
  BY <1>1 DEF IInv, RunType
<1>6. PICK cancelled \in BOOLEAN :
        /\ queue' = IF StopsAt(c) \/ cancelled THEN <<>> ELSE Tail(queue)
        /\ runErr' = (failures' # {} \/ cancelled)
  BY DEF CheckDone
<1>7. <<>> \in Seq(Callers) /\ IsInjective(<<>>) /\ ToSet(<<>>) = {}
  BY EmptySeq DEF IsInjective, ToSet
<1>8. \/ phase[c] = "result" /\ collected' = collected \cup {c} /\ failures' = failures
      \/ phase[c] = "error" /\ failures' = failures \cup {c} /\ collected' = collected
  BY DEF CheckDone
<1>9. RunType'
  BY <1>1, <1>2, <1>4, <1>6, <1>7 DEF IInv, RunType
<1>10. c \notin collected \cup failures
  BY <1>1, <1>2 DEF IInv, InSequence
<1>11. OnePlace'
  BY <1>1, <1>4, <1>5, <1>8, <1>10 DEF IInv, OnePlace, Executing
<1>12. InSequence'
  <2>1. ToSet(queue') \subseteq ToSet(Tail(queue))
    BY <1>6, <1>7
  <2>2. ToSet(queue') \cap (collected' \cup failures') = {}
    BY <2>1, <1>1, <1>2, <1>8 DEF IInv, InSequence
  <2>3. ASSUME ~runErr'
        PROVE  failures' = {} /\ collected' \cup ToSet(queue') = ToSet(checks')
    <3>1. failures' = {} /\ ~cancelled
      BY <2>3, <1>6
    <3>2. phase[c] = "result" /\ collected' = collected \cup {c} /\ failures = {}
      BY <3>1, <1>8
    <3>3. queue' = Tail(queue)
      BY <3>1, <3>2, <1>6 DEF StopsAt
    <3>4. ~runErr
      BY <3>2, <1>1 DEF IInv, InSequence
    <3> QED
      BY <3>1, <3>2, <3>3, <3>4, <1>1, <1>2, <1>4 DEF IInv, InSequence
  <2>4. runErr' /\ queue' # <<>> => failures' # {}
    BY <1>6
  <2> QED
    BY <2>2, <2>3, <2>4 DEF InSequence
<1>13. OnlyStarted'
  <2>1. phase'[c] = "idle" /\ \A d \in Callers : d # c => phase'[d] = phase[d]
    BY DEF CheckDone, Finish, IInv, RecoveryType
  <2> QED
    BY <2>1, <1>1 DEF IInv, OnlyStarted
<1>14. Returned'
  BY <1>1, <1>4 DEF Returned
<1> QED
  BY <1>3, <1>9, <1>11, <1>12, <1>13, <1>14 DEF IInv

LEMMA SequenceEndsIInv == ASSUME IInv, SequenceEnds PROVE IInv'
<1>1. RecoveryType' /\ RecoveryAccounted' /\ phase' = phase
  BY RestAccounted DEF IInv, SequenceEnds
<1>2. /\ rpc = "sequential" /\ rpc' = "returned" /\ queue = <<>>
      /\ UNCHANGED <<parallel, workerCount, checks, queue, wg, waiting, sem, resultsChan,
                     errorsChan, channelsOpen, collected, failures, runErr>>
  BY DEF SequenceEnds, chanVars, settings
<1>3. ToSet(queue) = {}
  BY <1>2, EmptySeq DEF ToSet
<1>4. RunType' /\ OnePlace' /\ InSequence' /\ OnlyStarted'
  BY <1>1, <1>2 DEF IInv, RunType, OnePlace, Executing, InSequence, OnlyStarted
<1>5. Returned'
  BY <1>2, <1>3 DEF IInv, RunType, InSequence, Returned
<1> QED
  BY <1>1, <1>4, <1>5 DEF IInv

-----------------------------------------------------------------------------
(* Steps of ErrorRecovery alone.                                           *)
LEMMA RecoveryIInv ==
    ASSUME IInv, NEW c \in Callers,
           RunDirectly(c) \/ (RecoveryStep(c) /\ UNCHANGED engineFrame)
    PROVE  IInv'
<1>1. /\ RecoveryType' /\ RecoveryAccounted' /\ phase[c] # "idle"
      /\ \E b \in Phases \ {"idle"} : phase' = [phase EXCEPT ![c] = b]
  BY RecoveryStepAccounted, DirectAccounted DEF IInv
<1>2. UNCHANGED <<parallel, workerCount, rpc, checks, queue, wg, waiting, sem, resultsChan,
                  errorsChan, channelsOpen, collected, failures, runErr>>
  BY DEF RunDirectly, engineFrame, chanVars, settings
<1>3. phase'[c] # "idle" /\ \A d \in Callers : d # c => phase'[d] = phase[d]
  BY <1>1 DEF IInv, RecoveryType
<1>4. Executing' = Executing
  BY <1>1, <1>2, <1>3 DEF Executing, IInv, RunType
<1>5. RunType' /\ InSequence' /\ Returned'
  BY <1>2 DEF IInv, RunType, InSequence, Returned
<1>6. OnePlace'
  BY <1>2, <1>4 DEF IInv, OnePlace
<1>7. OnlyStarted'
  BY <1>1, <1>2, <1>3 DEF IInv, OnlyStarted
<1> QED
  BY <1>1, <1>5, <1>6, <1>7 DEF IInv

LEMMA IdleIInv ==
    ASSUME IInv, UNCHANGED vars \/ (TimePasses /\ UNCHANGED engineFrame)
    PROVE  IInv'
<1>1. UNCHANGED recoveryVars \/ TimePasses
  BY DEF vars
<1>2. RecoveryType' /\ RecoveryAccounted' /\ phase' = phase
  BY <1>1, RestAccounted DEF IInv
<1>3. UNCHANGED <<parallel, workerCount, rpc, checks, queue, wg, waiting, sem, resultsChan,
                  errorsChan, channelsOpen, collected, failures, runErr>>
  BY DEF vars, engineFrame, chanVars, settings
<1> QED
  BY <1>2, <1>3 DEF IInv, RunType, OnePlace, Executing, InSequence, OnlyStarted, Returned

(* The inductive invariant holds throughout.                               *)
THEOREM Inductive == Spec => []IInv
<1>1. IInv /\ [Next]_vars => IInv'
  <2> SUFFICES ASSUME IInv, [Next]_vars PROVE IInv'
    OBVIOUS
  <2>1. CASE Run
    BY <2>1, RunIInv
  <2>2. CASE \E c \in Callers :
               \/ Acquire(c) \/ Send(c) \/ Leave(c) \/ CheckDone(c)
               \/ CheckPanics(c) \/ RunDirectly(c)
               \/ RecoveryStep(c) /\ UNCHANGED engineFrame
    BY <2>2, AcquireIInv, SendIInv, LeaveIInv, CheckDoneIInv, PanicIInv, RecoveryIInv
  <2>3. CASE \/ \E c \in Callers : CollectResult(c) \/ CollectError(c)
             \/ CloseChannels \/ CollectorEnds
    BY <2>3, CollectorIInv
  <2>4. CASE NextCheck
    BY <2>4, NextCheckIInv
  <2>5. CASE SequenceEnds
    BY <2>5, SequenceEndsIInv
  <2>6. CASE UNCHANGED vars \/ (TimePasses /\ UNCHANGED engineFrame)
    BY <2>6, IdleIInv
  <2>7. CASE StartChecks \/ StatusHangs
    BY <2>7, StartIInv
  <2> QED
    BY <2>1, <2>2, <2>3, <2>4, <2>5, <2>6, <2>7 DEF Next, Work
<1> QED
  BY InitIInv, <1>1, PTL DEF Spec

(* The recovery's metrics, and the breaker's totals beside them, account   *)
(* for every operation and every failure at every moment, however many     *)
(* callers of ExecuteWithRecovery interleave.                              *)
THEOREM MetricsBalance == Spec => []RecoveryAccounted
<1>1. IInv => RecoveryAccounted
  BY DEF IInv
<1> QED
  BY Inductive, <1>1, PTL

(* Run without an error has the result of every check it set out to        *)
(* execute, in parallel for any number of workers and in sequence; and the *)
(* parallel Run has a result or an error of each, never both.              *)
THEOREM EveryCheckReported == Spec => []NoCheckForgotten
<1>1. IInv => NoCheckForgotten
  BY DEF IInv, NoCheckForgotten, RecoveryType, RunType, OnePlace, Returned
<1> QED
  BY Inductive, <1>1, PTL

-----------------------------------------------------------------------------
(* With the values guarded takes, CallsPaired is inductive on top of IInv. *)
Paired == guarded \in [Callers -> {"idle", "running"}] /\ CallsPaired

LEMMA RecoveryPaired ==
    ASSUME RecoveryType, Paired, NEW c \in Callers, RecoveryStep(c)
    PROVE  Paired'
<1> USE DEF Paired, CallsPaired, RecoveryType, Go, breakerVars
<1>1. CASE CanExecute(c)
  <2>1. phase[c] = "admit" /\ guarded[c] = "idle"
    BY <1>1 DEF CanExecute, Breaker!CanExecute
  <2>2. guarded' = [guarded EXCEPT ![c] = "running"] \/ guarded' = guarded
    BY <1>1 DEF CanExecute, Breaker!CanExecute, Breaker!CanExecuteClosed,
         Breaker!CanExecuteOpen, Breaker!CanExecuteHalfOpen, Breaker!Admit
  <2>3. phase' = [phase EXCEPT ![c] = IF guarded'[c] = "running" THEN "operation"
                                      ELSE "blocked"]
    BY <1>1 DEF CanExecute
  <2> QED
    BY <2>1, <2>2, <2>3
<1>2. CASE RecordSuccess(c)
  BY <1>2 DEF RecordSuccess, Breaker!RecordSuccess
<1>3. CASE RecordFailure(c)
  BY <1>3 DEF RecordFailure, Breaker!RecordFailure
<1>4. CASE ~(CanExecute(c) \/ RecordSuccess(c) \/ RecordFailure(c))
  <2>1. guarded' = guarded
    BY <1>4 DEF RecoveryStep, EnterRecovery, Blocked, OperationSucceeds, Backoff,
         OperationFails, CountSuccess, CountFailure, HandleError, CountRecovery
  <2>2. \A d \in Callers : d # c => phase'[d] = phase[d]
    BY <1>4 DEF RecoveryStep, EnterRecovery, Blocked, OperationSucceeds, Backoff,
         OperationFails, CountSuccess, CountFailure, HandleError, CountRecovery
  <2>3. \/ /\ phase[c] \in {"operation", "backoff"}
           /\ phase'[c] \in {"operation", "backoff", "succeeded", "failed"}
        \/ /\ phase[c] \notin {"operation", "backoff", "succeeded", "failed"}
           /\ phase'[c] \notin {"operation", "backoff", "succeeded", "failed"}
    BY <1>4 DEF RecoveryStep, EnterRecovery, Blocked, OperationSucceeds, Backoff,
         OperationFails, CountSuccess, CountFailure, HandleError, CountRecovery
  <2> QED
    BY <2>1, <2>2, <2>3
<1> QED
  BY <1>1, <1>2, <1>3, <1>4

LEMMA NextPaired == IInv /\ Paired /\ [Next]_vars => Paired'
<1> SUFFICES ASSUME IInv, Paired, [Next]_vars PROVE Paired'
  OBVIOUS
<1>1. RecoveryType
  BY DEF IInv
<1>2. ASSUME NEW c \in Callers, RecoveryStep(c) PROVE Paired'
  BY <1>1, <1>2, RecoveryPaired
<1>3. ASSUME NEW c \in Callers, phase[c] = "idle", Begin(c) PROVE Paired'
  BY <1>1, <1>3 DEF Begin, breakerVars, Paired, CallsPaired, RecoveryType
<1>4. ASSUME NEW c \in Callers, phase[c] \in {"result", "error"}, Finish(c) PROVE Paired'
  BY <1>1, <1>4 DEF Finish, breakerVars, Paired, CallsPaired, RecoveryType
<1>5. ASSUME UNCHANGED recoveryVars \/ TimePasses PROVE Paired'
  BY <1>5 DEF recoveryVars, breakerVars, TimePasses, Breaker!RecoveryTimeoutPasses,
              Breaker!ResetTimeoutPasses, Paired, CallsPaired
<1>6. ASSUME NEW c \in Callers, Acquire(c) PROVE Paired'
  <2>1. phase[c] = "idle"
    BY <1>6 DEF Acquire, IInv, OnlyStarted, RunType, OnePlace
  <2> QED
    BY <2>1, <1>3, <1>6 DEF Acquire
<1>7. ASSUME NextCheck PROVE Paired'
  <2>1. Head(queue) \in Callers
    BY <1>7, HeadAndTail DEF IInv, RunType, NextCheck
  <2> QED
    BY <2>1, <1>3, <1>7 DEF NextCheck
<1>8. ASSUME NEW c \in Callers, Send(c) \/ CheckDone(c) PROVE Paired'
  BY <1>4, <1>8 DEF Send, CheckDone
<1>9. ASSUME \/ Run \/ StatusHangs \/ StartChecks \/ CloseChannels \/ CollectorEnds
             \/ SequenceEnds \/ UNCHANGED vars
             \/ \E c \in Callers : \/ CollectResult(c) \/ CollectError(c)
                                   \/ Leave(c) \/ CheckPanics(c)
      PROVE  Paired'
  <2>1. UNCHANGED recoveryVars
    BY <1>9 DEF Run, StatusHangs, StartChecks, CloseChannels, CollectorEnds, SequenceEnds,
                CollectResult, CollectError, Leave, CheckPanics, vars
  <2> QED
    BY <2>1, <1>5
<1>10. ASSUME NEW c \in Callers, RunDirectly(c) PROVE Paired'
  BY <1>1, <1>10 DEF RunDirectly, breakerVars, Paired, CallsPaired, RecoveryType
<1> QED
  BY <1>2, <1>5, <1>6, <1>7, <1>8, <1>9, <1>10 DEF Next, Work

(* ErrorRecovery reports to the breaker exactly the calls CanExecute let   *)
(* through, whatever the interleaving of callers, Runs and time.           *)
THEOREM AdmittedCallsReported == Spec => []CallsPaired
<1>1. Init => Paired
  BY DEF Init, RecoveryInit, Breaker!Init, Paired, CallsPaired
<1>2. Paired => CallsPaired
  BY DEF Paired
<1> QED
  BY Inductive, NextPaired, <1>1, <1>2, PTL DEF Spec

(* The breaker under the engine takes only steps of its own specification, *)
(* so whatever CircuitBreakerProofs shows of every behaviour of            *)
(* CircuitBreaker holds of the one that ErrorRecovery shares.              *)
THEOREM BreakerUsedAsSpecified == Spec => Breaker!Spec
<1>1. Init => Breaker!Init
  BY DEF Init, RecoveryInit
<1>2. [Next]_vars => [Breaker!Next]_(Breaker!vars)
  <2> SUFFICES ASSUME [Next]_vars PROVE [Breaker!Next]_(Breaker!vars)
    OBVIOUS
  <2> USE DEF Breaker!vars, Breaker!counts, Breaker!probes, Breaker!totals, breakerVars
  <2>1. ASSUME UNCHANGED breakerVars PROVE UNCHANGED Breaker!vars
    BY <2>1
  <2>2. CASE \/ Run \/ StatusHangs \/ StartChecks \/ CloseChannels \/ CollectorEnds
             \/ NextCheck \/ SequenceEnds \/ UNCHANGED vars
    BY <2>2, <2>1 DEF Run, StatusHangs, StartChecks, CloseChannels, CollectorEnds, NextCheck,
                      SequenceEnds, Begin, recoveryVars, vars
  <2>3. ASSUME NEW c \in Callers,
               \/ Acquire(c) \/ Send(c) \/ Leave(c) \/ CollectResult(c) \/ CollectError(c)
               \/ CheckDone(c) \/ RunDirectly(c) \/ CheckPanics(c)
        PROVE  UNCHANGED Breaker!vars
    BY <2>3, <2>1 DEF Acquire, Send, Leave, CollectResult, CollectError, CheckDone,
                      RunDirectly, CheckPanics, Begin, Finish, recoveryVars
  <2>4. ASSUME NEW c \in Callers, RecoveryStep(c)
        PROVE  [Breaker!Next]_(Breaker!vars)
    <3>1. CASE CanExecute(c) \/ RecordSuccess(c) \/ RecordFailure(c)
      BY <3>1 DEF CanExecute, RecordSuccess, RecordFailure, Breaker!Next
    <3>2. CASE ~(CanExecute(c) \/ RecordSuccess(c) \/ RecordFailure(c))
      BY <2>4, <3>2, <2>1 DEF RecoveryStep, EnterRecovery, Blocked, OperationSucceeds,
           Backoff, OperationFails, CountSuccess, CountFailure, HandleError, CountRecovery
    <3> QED
      BY <3>1, <3>2
  <2>5. CASE TimePasses
    BY <2>5 DEF TimePasses, Breaker!Next
  <2> QED
    BY <2>2, <2>3, <2>4, <2>5 DEF Next, Work
<1> QED
  BY <1>1, <1>2, PTL DEF Spec, Breaker!Spec

=============================================================================
