----------------------- MODULE ResourceCleanupProofs -----------------------
(***************************************************************************)
(* Safety of the cleanup manager for any resources, any number of callers, *)
(* any batch size and any semaphore: unless DryRun is set, a cleanup that  *)
(* records success has removed all it chose; and Shutdown closes the stop  *)
(* channel once.                                                           *)
(***************************************************************************)
EXTENDS ResourceCleanup, FiniteSetTheorems, SequenceTheorems, TLAPS

Triggers == {"none", "error_recovery", "manual", "emergency", "shutdown"}
Places == {"idle", "batches", "batch", "record", "close", "final", "ended"}
Working == {"batches", "batch", "record"}

Operation ==
    [trigger : Triggers, chosen : SUBSET Resources, todo : SUBSET Resources,
     waiting : SUBSET Resources, holding : SUBSET Resources,
     removed : SUBSET Resources, skipped : SUBSET Resources, failed : SUBSET Resources,
     cancelled : BOOLEAN]
Record == [dryRun : BOOLEAN, success : BOOLEAN,
           resources : SUBSET Resources, removed : SUBSET Resources]

CleanupTypeOK ==
    /\ DryRun \in BOOLEAN
    /\ tracked \in [IDs -> Resources \cup {NoResource}]
    /\ metrics \in [total : Nat, successful : Nat, failed : Nat]
    /\ history \in Seq(Record)
    /\ stopped \in BOOLEAN /\ stopClosed \in BOOLEAN
    /\ pc \in [Procs -> Places]
    /\ op \in [Procs -> Operation]

(* Where the resources of an operation are.                                *)
Parts(o) == UNION {o.todo, o.waiting, o.holding, o.removed, o.skipped, o.failed}

(* A dry run removes nothing and nothing else skips.                       *)
ByMode(o) == (DryRun => o.removed = {}) /\ (~DryRun => o.skipped = {})

(* Every chosen resource of a cleanup is in a later batch, in this one or  *)
(* has a result; the batch is empty outside processBatch; and a cleanup    *)
(* that comes to its record has done all batches or knows it was cut short.*)
Accounted(p) ==
    /\ op[p].chosen = Parts(op[p])
    /\ ByMode(op[p])
    /\ pc[p] # "batch" => op[p].waiting = {} /\ op[p].holding = {}
    /\ pc[p] = "record" => op[p].todo = {} \/ op[p].cancelled

AllAccounted == \A p \in Procs : Accounted(p)

(* The caller that set stopped is the only one on its way through          *)
(* Shutdown, and stopCh is open until it has closed it.                    *)
OneStopper ==
    /\ ~panicked
    /\ stopClosed => stopped
    /\ \A p \in Callers : pc[p] \in {"close", "final"} => stopped
    /\ \A p \in Callers : pc[p] = "close" => ~stopClosed
    /\ \A p, q \in Callers :
          pc[p] \in {"close", "final"} /\ pc[q] \in {"close", "final"} => p = q

Complete(h) ==
    /\ DryRun => h.removed = {}
    /\ ~DryRun /\ h.success => h.removed = h.resources

RecordsComplete ==
    /\ Len(history) <= MaxHistory
    /\ metrics.total = metrics.successful + metrics.failed
    /\ \A i \in 1 .. Len(history) : Complete(history[i])

(* The inductive invariant.                                                *)
IInv == CleanupTypeOK /\ AllAccounted /\ OneStopper /\ RecordsComplete

-----------------------------------------------------------------------------
(* What any cleanup chooses is tracked.                                    *)
LEMMA ChosenAreResources ==
    ASSUME tracked \in [IDs -> Resources \cup {NoResource}]
    PROVE  /\ getAllTrackedResources \in SUBSET Resources
           /\ getTemporaryResources \in SUBSET Resources
           /\ \A s : getResourcesForCleanup(s) \in SUBSET Resources
<1>1. getAllTrackedResources \in SUBSET Resources
  BY DEF getAllTrackedResources
<1>2. getTemporaryResources \in SUBSET Resources
  BY <1>1 DEF getTemporaryResources
<1>3. \A s : getResourcesForCleanup(s) \in SUBSET Resources
  BY <1>1 DEF getResourcesForCleanup
<1> QED
  BY <1>1, <1>2, <1>3

LEMMA InitIInv == Init => IInv
<1> SUFFICES ASSUME Init PROVE IInv
  OBVIOUS
<1>1. NoOperation \in Operation
  BY DEF NoOperation, Operation, Triggers
<1>2. CleanupTypeOK
  BY <1>1, EmptySeq DEF Init, CleanupTypeOK, Places
<1>3. AllAccounted
  BY DEF Init, AllAccounted, Accounted, NoOperation, Parts, ByMode
<1>4. OneStopper
  BY DEF Init, OneStopper, Procs
<1>5. RecordsComplete
  BY CleanupAssumption, EmptySeq DEF Init, RecordsComplete
<1> QED
  BY <1>2, <1>3, <1>4, <1>5 DEF IInv

(* The begin of a cleanup, from idle or from Shutdown.                     *)
LEMMA BeginKeepsIInv ==
    ASSUME IInv, NEW p \in Procs, NEW t \in Triggers, NEW R \in SUBSET Resources,
           pc[p] \in {"idle", "final"}, Begin(p, t, R)
    PROVE  IInv'
<1> DEFINE o == [NoOperation EXCEPT !.trigger = t, !.chosen = R, !.todo = R]
<1>1. /\ o \in Operation /\ o.waiting = {} /\ o.holding = {}
      /\ o.chosen = Parts(o) /\ ByMode(o)
  <2>1. o \in Operation
    BY DEF NoOperation, Operation, Triggers
  <2>2. o.chosen = R /\ o.todo = R /\ o.waiting = {} /\ o.holding = {}
    BY DEF NoOperation
  <2>3. o.removed = {} /\ o.skipped = {} /\ o.failed = {}
    BY DEF NoOperation
  <2> HIDE DEF o
  <2> QED
    BY <2>1, <2>2, <2>3 DEF Parts, ByMode
<1>2. /\ op' = [op EXCEPT ![p] = o] /\ pc' = [pc EXCEPT ![p] = "batches"]
      /\ UNCHANGED <<DryRun, tracked, metrics, history, stopped, stopClosed, panicked>>
  BY DEF Begin, recordVars, stopVars, settings
<1> HIDE DEF o
<1>3. CleanupTypeOK'
  BY <1>1, <1>2 DEF IInv, CleanupTypeOK, Places
<1>4. AllAccounted'
  BY <1>1, <1>2 DEF IInv, CleanupTypeOK, AllAccounted, Accounted, Parts, ByMode
<1>5. OneStopper'
  BY <1>2 DEF IInv, CleanupTypeOK, OneStopper, Procs
<1>6. RecordsComplete'
  BY <1>2 DEF IInv, RecordsComplete, Complete
<1> QED
  BY <1>3, <1>4, <1>5, <1>6 DEF IInv

(* The steps of a cleanup leave Shutdown alone.                            *)
LEMMA ProceedKeepsStopper ==
    ASSUME IInv, NEW p \in Procs, pc[p] \in Working, NEW q \in Working \cup {"idle"},
           pc' = [pc EXCEPT ![p] = q], UNCHANGED stopVars
    PROVE  OneStopper'
  BY DEF IInv, CleanupTypeOK, OneStopper, stopVars, Working, Procs

(* A step of a cleanup before its record, by what it does to the operation.*)
LEMMA ProceedKeepsIInv ==
    ASSUME IInv, NEW p \in Procs, Proceed(p)
    PROVE  IInv'
<1> USE DEF IInv
<1>1. pc[p] \in Places /\ op[p] \in Operation /\ Accounted(p)
  BY DEF CleanupTypeOK, AllAccounted
<1>2. ASSUME NEW o \in Operation, op' = [op EXCEPT ![p] = o],
             NEW q \in Working, pc[p] \in Working, pc' = [pc EXCEPT ![p] = q],
             o.chosen = Parts(o) /\ ByMode(o),
             q # "batch" => o.waiting = {} /\ o.holding = {},
             q = "record" => o.todo = {} \/ o.cancelled,
             tracked' \in [IDs -> Resources \cup {NoResource}],
             UNCHANGED <<DryRun, metrics, history, stopped, stopClosed, panicked>>
      PROVE  IInv'
  <2>1. CleanupTypeOK'
    BY <1>2 DEF CleanupTypeOK, Places, Working
  <2>2. AllAccounted'
    BY <1>2 DEF CleanupTypeOK, AllAccounted, Accounted, Parts, ByMode
  <2>3. OneStopper'
    BY <1>2, ProceedKeepsStopper DEF stopVars
  <2>4. RecordsComplete'
    BY <1>2 DEF RecordsComplete, Complete
  <2> QED
    BY <2>1, <2>2, <2>3, <2>4
<1>3. CASE StartBatch(p)
  <2>1. PICK batch \in SUBSET op[p].todo :
          op' = [op EXCEPT ![p].waiting = batch, ![p].todo = @ \ batch]
    BY <1>3 DEF StartBatch, kSubset
  <2> DEFINE o == [op[p] EXCEPT !.waiting = batch, !.todo = @ \ batch]
  <2>2. op' = [op EXCEPT ![p] = o]
    BY <2>1 DEF CleanupTypeOK
  <2>3. o \in Operation
    BY <1>1 DEF Operation
  <2>4. o.chosen = Parts(o) /\ ByMode(o)
    BY <1>1, <1>3 DEF Operation, Accounted, StartBatch, Parts, ByMode
  <2> HIDE DEF o
  <2> QED
    BY <1>2, <1>3, <2>2, <2>3, <2>4 DEF StartBatch, recordVars, stopVars, settings, Working, CleanupTypeOK
<1>4. ASSUME NEW r \in Resources, AcquireSemaphore(p, r) PROVE IInv'
  <2> DEFINE o == [op[p] EXCEPT !.waiting = @ \ {r}, !.holding = @ \cup {r}]
  <2>1. op' = [op EXCEPT ![p] = o]
    BY <1>4 DEF AcquireSemaphore, CleanupTypeOK
  <2>2. o \in Operation
    BY <1>1 DEF Operation
  <2>3. pc[p] = "batch" /\ pc' = [pc EXCEPT ![p] = "batch"]
    BY <1>1, <1>4 DEF AcquireSemaphore, Accounted, CleanupTypeOK
  <2>4. o.chosen = Parts(o) /\ ByMode(o)
    BY <1>1, <1>4, <2>3 DEF Operation, Accounted, AcquireSemaphore, Parts, ByMode
  <2> HIDE DEF o
  <2> QED
    BY <1>2, <1>4, <2>1, <2>2, <2>3, <2>4
       DEF AcquireSemaphore, recordVars, stopVars, settings, Working, CleanupTypeOK
<1>5. ASSUME NEW r \in Resources, cleanupResource(p, r) PROVE IInv'
  <2>1. pc[p] = "batch" /\ pc' = [pc EXCEPT ![p] = "batch"]
    BY <1>1, <1>5 DEF cleanupResource, Accounted, CleanupTypeOK
  <2>2. tracked' \in [IDs -> Resources \cup {NoResource}]
    BY <1>5 DEF cleanupResource, CleanupTypeOK
  <2>3. r \in op[p].holding /\ UNCHANGED <<settings, recordVars, stopVars>>
    BY <1>5 DEF cleanupResource
  <2>4. ASSUME NEW o, op' = [op EXCEPT ![p] = o],
               o \in Operation, o.chosen = Parts(o) /\ ByMode(o)
        PROVE  IInv'
    BY <1>2, <2>1, <2>2, <2>3, <2>4 DEF recordVars, stopVars, settings, Working
  <2>5. CASE DryRun
    <3> DEFINE o == [op[p] EXCEPT !.holding = @ \ {r}, !.skipped = @ \cup {r}]
    <3>1. ActionTaken = "skipped"
      BY <2>5 DEF ActionTaken
    <3>2. op' = [op EXCEPT ![p] = o]
      BY <1>1, <1>5, <3>1 DEF cleanupResource, CleanupTypeOK, Operation
    <3>3. o \in Operation
      BY <1>1 DEF Operation
    <3>4. o.chosen = Parts(o) /\ ByMode(o)
      BY <1>1, <2>3, <2>5 DEF Operation, Accounted, Parts, ByMode
    <3> HIDE DEF o
    <3> QED
      BY <2>4, <3>2, <3>3, <3>4
  <2>6. CASE ~DryRun /\ ClientAvailable
    <3> DEFINE o == [op[p] EXCEPT !.holding = @ \ {r}, !.removed = @ \cup {r}]
    <3>1. ActionTaken = "removed"
      BY <2>6 DEF ActionTaken
    <3>2. op' = [op EXCEPT ![p] = o]
      BY <1>1, <1>5, <3>1 DEF cleanupResource, CleanupTypeOK, Operation
    <3>3. o \in Operation
      BY <1>1 DEF Operation
    <3>4. o.chosen = Parts(o) /\ ByMode(o)
      BY <1>1, <2>3, <2>6 DEF Operation, Accounted, Parts, ByMode
    <3> HIDE DEF o
    <3> QED
      BY <2>4, <3>2, <3>3, <3>4
  <2>7. CASE ~DryRun /\ ~ClientAvailable
    <3> DEFINE o == [op[p] EXCEPT !.holding = @ \ {r}, !.failed = @ \cup {r}]
    <3>1. ActionTaken = "failed"
      BY <2>7 DEF ActionTaken
    <3>2. op' = [op EXCEPT ![p] = o]
      BY <1>1, <1>5, <3>1 DEF cleanupResource, CleanupTypeOK, Operation
    <3>3. o \in Operation
      BY <1>1 DEF Operation
    <3>4. o.chosen = Parts(o) /\ ByMode(o)
      BY <1>1, <2>3, <2>7 DEF Operation, Accounted, Parts, ByMode
    <3> HIDE DEF o
    <3> QED
      BY <2>4, <3>2, <3>3, <3>4
  <2> QED
    BY <2>5, <2>6, <2>7
<1>6. CASE BatchDone(p)
  <2>1. CASE pc' = [pc EXCEPT ![p] = "batches"] /\ UNCHANGED op
    <3>1. op' = [op EXCEPT ![p] = op[p]]
      BY <2>1 DEF CleanupTypeOK
    <3> QED
      BY <1>1, <1>2, <1>6, <2>1, <3>1
         DEF BatchDone, Accounted, recordVars, stopVars, settings, Working, CleanupTypeOK
  <2>2. CASE /\ pc' = [pc EXCEPT ![p] = "record"]
             /\ op' = [op EXCEPT ![p].cancelled = TRUE]
    <3> DEFINE o == [op[p] EXCEPT !.cancelled = TRUE]
    <3>1. op' = [op EXCEPT ![p] = o]
      BY <2>2 DEF CleanupTypeOK
    <3>2. o \in Operation /\ o.cancelled
      BY <1>1 DEF Operation
    <3>3. /\ o.chosen = Parts(o) /\ ByMode(o)
          /\ o.waiting = {} /\ o.holding = {}
      BY <1>1, <1>6 DEF Operation, Accounted, Parts, ByMode, BatchDone
    <3> HIDE DEF o
    <3> QED
      BY <1>2, <1>6, <2>2, <3>1, <3>2, <3>3
         DEF BatchDone, recordVars, stopVars, settings, Working, CleanupTypeOK
  <2> QED
    BY <1>6, <2>1, <2>2 DEF BatchDone
<1>7. CASE updateCleanupMetrics(p)
  <2>1. /\ pc[p] = "batches" /\ op[p].todo = {} /\ pc' = [pc EXCEPT ![p] = "record"]
        /\ UNCHANGED <<DryRun, tracked, history, stopVars, op>>
    BY <1>7 DEF updateCleanupMetrics, settings
  <2>2. /\ metrics' \in [total : Nat, successful : Nat, failed : Nat]
        /\ metrics'.total = metrics'.successful + metrics'.failed
    <3>1. /\ metrics \in [total : Nat, successful : Nat, failed : Nat]
          /\ metrics.total = metrics.successful + metrics.failed
      BY DEF CleanupTypeOK, RecordsComplete
    <3>2. \/ metrics' = [metrics EXCEPT !.total = @ + 1, !.successful = @ + 1]
          \/ metrics' = [metrics EXCEPT !.total = @ + 1, !.failed = @ + 1]
      BY <1>7 DEF updateCleanupMetrics
    <3>3. CASE metrics' = [metrics EXCEPT !.total = @ + 1, !.successful = @ + 1]
      <4>1. /\ metrics'.total = metrics.total + 1 /\ metrics'.failed = metrics.failed
            /\ metrics'.successful = metrics.successful + 1
        BY <3>1, <3>3
      <4>2. /\ metrics.total + 1 \in Nat /\ metrics.successful \in Nat /\ metrics.failed \in Nat
        BY <3>1
      <4>3. metrics' = [total |-> metrics.total + 1, successful |-> metrics.successful + 1,
                        failed |-> metrics.failed]
        BY <3>1, <3>3
      <4> QED
        BY <3>1, <4>1, <4>2, <4>3
    <3>4. CASE metrics' = [metrics EXCEPT !.total = @ + 1, !.failed = @ + 1]
      <4>1. /\ metrics'.total = metrics.total + 1 /\ metrics'.failed = metrics.failed + 1
            /\ metrics'.successful = metrics.successful
        BY <3>1, <3>4
      <4>2. /\ metrics.total + 1 \in Nat /\ metrics.successful \in Nat /\ metrics.failed \in Nat
        BY <3>1
      <4>3. metrics' = [total |-> metrics.total + 1, successful |-> metrics.successful,
                        failed |-> metrics.failed + 1]
        BY <3>1, <3>4
      <4> QED
        BY <3>1, <4>1, <4>2, <4>3
    <3> QED
      BY <3>2, <3>3, <3>4
  <2>3. CleanupTypeOK'
    BY <2>1, <2>2 DEF CleanupTypeOK, Places, stopVars
  <2>4. AllAccounted'
    BY <2>1 DEF CleanupTypeOK, AllAccounted, Accounted, Parts, ByMode
  <2>5. OneStopper'
    BY <2>1, ProceedKeepsStopper DEF Working
  <2> QED
    BY <2>1, <2>2, <2>3, <2>4, <2>5 DEF RecordsComplete, Complete
<1>8. CASE recordCleanupOperation(p)
  <2> DEFINE record == [dryRun |-> DryRun /\ op[p].trigger # "shutdown",
                        success |-> op[p].failed = {} /\ ~op[p].cancelled,
                        resources |-> op[p].chosen, removed |-> op[p].removed]
             all == Append(history, record)
             first == IF Len(all) > MaxHistory THEN 2 ELSE 1
  <2>1. /\ pc[p] = "record" /\ pc' = [pc EXCEPT ![p] = "idle"]
        /\ op' = [op EXCEPT ![p] = NoOperation]
        /\ history' = SubSeq(all, first, Len(all))
        /\ UNCHANGED <<DryRun, tracked, metrics, stopVars>>
    BY <1>8 DEF recordCleanupOperation, settings
  <2>2. record \in Record /\ Complete(record)
    <3>1. /\ op[p].cancelled \in BOOLEAN
          /\ op[p].chosen \in SUBSET Resources /\ op[p].removed \in SUBSET Resources
      BY <1>1 DEF Operation
    <3>2. /\ (op[p].failed = {} /\ ~op[p].cancelled) \in BOOLEAN
          /\ (DryRun /\ op[p].trigger # "shutdown") \in BOOLEAN
      OBVIOUS
    <3>3. ~DryRun /\ op[p].failed = {} /\ ~op[p].cancelled
             => op[p].removed = op[p].chosen
      BY <1>1, <2>1 DEF Accounted, Parts, ByMode
    <3>4. DryRun => op[p].removed = {}
      BY <1>1 DEF Accounted, ByMode
    <3>5. record \in Record
      BY <3>1, <3>2 DEF Record
    <3>6. Complete(record)
      BY <3>3, <3>4 DEF Complete
    <3> QED
      BY <3>5, <3>6
  <2>3. /\ all \in Seq(Record) /\ Len(all) = Len(history) + 1
        /\ \A i \in 1 .. Len(all) : Complete(all[i])
    <3> HIDE DEF record
    <3>1. history \in Seq(Record) /\ Len(history) \in Nat
      BY LenProperties DEF CleanupTypeOK
    <3>2. /\ all \in Seq(Record) /\ Len(all) = Len(history) + 1
          /\ \A i \in 1 .. Len(history) : all[i] = history[i]
          /\ all[Len(history) + 1] = record
      BY <2>2, <3>1, AppendProperties
    <3> HIDE DEF all
    <3> QED
      BY <2>2, <3>1, <3>2 DEF RecordsComplete
  <2>4. Len(history) \in Nat /\ Len(history) <= MaxHistory /\ MaxHistory \in Nat \ {0}
    BY CleanupAssumption, LenProperties DEF CleanupTypeOK, RecordsComplete
  <2> HIDE DEF record, all
  <2>5. /\ history' \in Seq(Record)
        /\ Len(history') = Len(all) - first + 1
        /\ \A i \in 1 .. Len(all) - first + 1 : history'[i] = all[first + i - 1]
    <3>1. first \in 1 .. Len(all) /\ Len(all) \in Nat
      BY <2>3, <2>4
    <3>2. \A i \in first .. Len(all) : all[i] \in Record
      BY <2>3, <3>1, ElementOfSeq
    <3> HIDE DEF first
    <3> QED
      BY <2>1, <3>1, <3>2, SubSeqProperties
  <2>6. RecordsComplete'
    BY <2>1, <2>3, <2>4, <2>5 DEF RecordsComplete, Complete
  <2>7. /\ NoOperation \in Operation /\ NoOperation.waiting = {} /\ NoOperation.holding = {}
        /\ NoOperation.chosen = Parts(NoOperation) /\ ByMode(NoOperation)
    BY DEF NoOperation, Operation, Triggers, Parts, ByMode
  <2>8. CleanupTypeOK'
    BY <2>1, <2>5, <2>7 DEF CleanupTypeOK, Places, stopVars
  <2>9. AllAccounted'
    BY <2>1, <2>7 DEF CleanupTypeOK, AllAccounted, Accounted, Parts, ByMode
  <2>10. OneStopper'
    BY <2>1, ProceedKeepsStopper DEF Working
  <2> QED
    BY <2>6, <2>8, <2>9, <2>10
<1> QED
  BY <1>3, <1>4, <1>5, <1>6, <1>7, <1>8 DEF Proceed

(* Shutdown, its close of stopCh, and the end of the loop.                 *)
LEMMA ShutdownKeepsIInv ==
    ASSUME IInv,
           \/ \E p \in Callers : Shutdown(p) \/ CloseStop(p)
           \/ periodicCleanupLoopEnds
    PROVE  IInv'
<1> USE DEF IInv
<1>1. ASSUME NEW p \in Callers, Shutdown(p) PROVE IInv'
  <2>1. CleanupTypeOK' /\ AllAccounted'
    BY <1>1 DEF Shutdown, CleanupTypeOK, AllAccounted, Accounted, Parts, ByMode,
       Places, recordVars, settings
  <2>2. OneStopper'
    BY <1>1 DEF Shutdown, CleanupTypeOK, OneStopper, Procs
  <2> QED
    BY <1>1, <2>1, <2>2 DEF Shutdown, RecordsComplete, Complete, recordVars, settings
<1>2. ASSUME NEW p \in Callers, CloseStop(p) PROVE IInv'
  <2>1. CleanupTypeOK' /\ AllAccounted'
    BY <1>2 DEF CloseStop, CleanupTypeOK, AllAccounted, Accounted, Parts, ByMode,
       Places, recordVars, settings
  <2>2. OneStopper'
    BY <1>2 DEF CloseStop, CleanupTypeOK, OneStopper, Procs
  <2> QED
    BY <1>2, <2>1, <2>2 DEF CloseStop, RecordsComplete, Complete, recordVars, settings
<1>3. CASE periodicCleanupLoopEnds
  <2>1. CleanupTypeOK' /\ AllAccounted'
    BY <1>3 DEF periodicCleanupLoopEnds, CleanupTypeOK, AllAccounted, Accounted, Parts,
                ByMode, Places, recordVars, stopVars, settings
  <2>2. OneStopper'
    BY <1>3, CleanupAssumption DEF periodicCleanupLoopEnds, CleanupTypeOK, OneStopper, stopVars
  <2> QED
    BY <1>3, <2>1, <2>2 DEF periodicCleanupLoopEnds, RecordsComplete, Complete, recordVars, settings
<1> QED
  BY <1>1, <1>2, <1>3

(* Every step keeps the invariant.                                         *)
LEMMA NextIInv == IInv /\ [Next]_vars => IInv'
<1> SUFFICES ASSUME IInv, [Next]_vars PROVE IInv'
  OBVIOUS
<1>1. ASSUME NEW p \in Procs, Proceed(p) PROVE IInv'
  BY <1>1, ProceedKeepsIInv
<1>2. ASSUME NEW p \in Procs,
             \/ CleanupAfterError(p) \/ PerformAggressiveCleanup(p)
             \/ PerformFinalCleanup(p) \/ PerformCleanup(p)
      PROVE  IInv'
  <2>1. \E t \in Triggers, R \in SUBSET Resources :
           pc[p] \in {"idle", "final"} /\ Begin(p, t, R)
    BY <1>2, ChosenAreResources
       DEF CleanupAfterError, PerformAggressiveCleanup, PerformFinalCleanup, PerformCleanup,
           Triggers, IInv, CleanupTypeOK
  <2> QED
    BY <2>1, BeginKeepsIInv
<1>3. CASE \/ \E p \in Callers : Shutdown(p) \/ CloseStop(p)
           \/ periodicCleanupLoopEnds
  BY <1>3, ShutdownKeepsIInv
<1>4. CASE \/ \E r \in Resources : TrackResource(r)
           \/ \E i \in IDs : UntrackResource(i)
  <2>1. /\ tracked' \in [IDs -> Resources \cup {NoResource}]
        /\ UNCHANGED <<DryRun, recordVars, stopVars, pc, op>>
    BY <1>4, CleanupAssumption
       DEF TrackResource, UntrackResource, IInv, CleanupTypeOK, settings
  <2> QED
    BY <2>1 DEF IInv, CleanupTypeOK, AllAccounted, Accounted, Parts, ByMode, OneStopper,
                RecordsComplete, Complete, recordVars, stopVars
<1>5. CASE UNCHANGED vars
  BY <1>5 DEF IInv, CleanupTypeOK, AllAccounted, Accounted, Parts, ByMode, OneStopper,
              RecordsComplete, Complete, vars, recordVars, stopVars, settings
<1> QED
  BY <1>1, <1>2, <1>3, <1>4, <1>5 DEF Next, Procs

LEMMA Inductive == Spec => []IInv
  BY InitIInv, NextIInv, PTL DEF Spec

-----------------------------------------------------------------------------
(* Unless the manager is configured for dry runs, a cleanup whose history  *)
(* entry says success removed every resource it had chosen, however        *)
(* batches, cancellation and other cleanups interleave; configured so, no  *)
(* cleanup removes anything, the final one included (executeCleanup,       *)
(* cleanupResource, recordCleanupOperation).                               *)
THEOREM SuccessMeansComplete == Spec => []SuccessIsComplete
<1>1. IInv => SuccessIsComplete
  BY DEF IInv, CleanupTypeOK, RecordsComplete, Complete, SuccessIsComplete, Places
<1> QED
  BY <1>1, Inductive, PTL

(* Any number of concurrent Shutdowns close stopCh once, and one of them   *)
(* goes on to the final cleanup.                                           *)
THEOREM ShutdownStopsOnce == Spec => []StopsOnce
<1>1. ASSUME IInv PROVE StopsOnce
  <2> DEFINE S == {p \in Callers : pc[p] \in {"close", "final"}}
  <2>1. S = {} \/ \E p : S = {p}
    BY <1>1 DEF IInv, OneStopper
  <2>2. Cardinality(S) <= 1
    <3> HIDE DEF S
    <3>1. CASE S = {}
      BY <3>1, FS_EmptySet
    <3>2. ASSUME NEW p, S = {p} PROVE Cardinality(S) = 1
      BY <3>2, FS_Singleton
    <3> QED
      BY <2>1, <3>1, <3>2
  <2> QED
    BY <1>1, <2>2 DEF IInv, OneStopper, StopsOnce
<1> QED
  BY <1>1, Inductive, PTL
=============================================================================
