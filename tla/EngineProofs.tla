---------------------------- MODULE EngineProofs ----------------------------
(***************************************************************************)
(* Safety of the worker pool, for any number of workers, submitters and    *)
(* checks and any channel capacities, and of the DiagnosticEngine.Run that *)
(* drives it.  The first part is about PoolSpec and uses PoolAssumption    *)
(* alone: the counters account for every job, and every job has one place. *)
(* The second is about Spec of module Engine: each of its steps is a step  *)
(* of the pool, or leaves all of the pool but crashed as it is, so the     *)
(* pool's invariant carries over.                                          *)
(***************************************************************************)
EXTENDS Engine, FiniteSetTheorems, SequenceTheorems, TLAPS

(* Before Start there are no worker goroutines.                            *)
NoWorkerBeforeStart ==
    ~started => \A w \in Workers : wpc[w] = "unstarted"

(* The inductive invariant.                                                *)
PoolInv ==
    /\ TypeOK
    /\ NoWorkerBeforeStart
    /\ ActiveJobsAccounting
    /\ ResultsCounted

(* Submitters whose check is not in the queue yet, and workers whose job   *)
(* has no result yet.                                                      *)
Offering == {s \in Submitters : spc[s] \in {"screen", "sending"}}
Carrying == Holding \ Unrecorded

Distinct(s) == \A i, j \in 1..Len(s) : s[i] = s[j] => i = j

(* No check is in two places, in the terms of positions and workers that   *)
(* the steps preserve.                                                     *)
JobsApart ==
    /\ Distinct(jobs)
    /\ \A i, j \in 1..Len(Outcome) : Outcome[i].check = Outcome[j].check => i = j
    /\ \A v, w \in Carrying : wjob[v] = wjob[w] => v = w
    /\ Queued \cap InHand = {}
    /\ (Queued \cup InHand) \cap Resolved = {}

(* What has a place was accepted, and while p.ctx lives the converse.      *)
JobsKnown ==
    /\ Queued \cup InHand \cup Resolved \subseteq accepted
    /\ accepted \subseteq tried
    /\ ~ctxDone => accepted \subseteq Queued \cup InHand \cup Resolved

(* What is on its way into the queue was not accepted before.              *)
OffersFresh ==
    /\ \A s \in Offering : sjob[s] \in tried \ accepted
    /\ \A r, s \in Offering : sjob[r] = sjob[s] => r = s

Placed == JobsApart /\ JobsKnown /\ OffersFresh

Places == {"unstarted", "idle", "exited"} \cup HoldingPlaces \cup RecordingPlaces

-----------------------------------------------------------------------------
(* The sets the accounting counts are finite.                              *)
LEMMA CountedSetsFinite ==
    /\ IsFiniteSet(Uncounted) /\ Cardinality(Uncounted) \in Nat
    /\ IsFiniteSet(Holding) /\ Cardinality(Holding) \in Nat
    /\ IsFiniteSet(Unrecorded) /\ Cardinality(Unrecorded) \in Nat
<1>1. Uncounted \subseteq Submitters
  BY DEF Uncounted
<1>2. Holding \subseteq Workers /\ Unrecorded \subseteq Workers
  BY DEF Holding, Unrecorded
<1> QED
  BY <1>1, <1>2, PoolAssumption, FS_Subset, FS_CardinalityType

(* A worker that takes up a job adds one to Holding.                       *)
LEMMA HoldingGrows ==
    ASSUME wpc \in [Workers -> Places],
           NEW w \in Workers, wpc[w] \notin HoldingPlaces,
           NEW p \in HoldingPlaces, wpc' = [wpc EXCEPT ![w] = p]
    PROVE  Cardinality(Holding') = Cardinality(Holding) + 1
<1>1. Holding' = Holding \cup {w} /\ w \notin Holding
  BY DEF Holding
<1> QED
  BY <1>1, CountedSetsFinite, FS_AddElement

(* A worker that releases its job takes one from Holding.                  *)
LEMMA HoldingShrinks ==
    ASSUME wpc \in [Workers -> Places],
           NEW w \in Workers, wpc[w] \in HoldingPlaces,
           NEW p, p \notin HoldingPlaces, wpc' = [wpc EXCEPT ![w] = p]
    PROVE  Cardinality(Holding') = Cardinality(Holding) - 1
<1>1. Holding' = Holding \ {w} /\ w \in Holding
  BY DEF Holding
<1> QED
  BY <1>1, CountedSetsFinite, FS_RemoveElement

(* Any other move of a worker leaves Holding alone.                        *)
LEMMA HoldingKept ==
    ASSUME wpc \in [Workers -> Places],
           NEW w \in Workers, NEW p, wpc' = [wpc EXCEPT ![w] = p],
           (wpc[w] \in HoldingPlaces) <=> (p \in HoldingPlaces)
    PROVE  Holding' = Holding
  BY DEF Holding

(* A worker that sent a result adds one to Unrecorded.                     *)
LEMMA UnrecordedGrows ==
    ASSUME wpc \in [Workers -> Places],
           NEW w \in Workers, wpc[w] \notin RecordingPlaces,
           NEW p \in RecordingPlaces, wpc' = [wpc EXCEPT ![w] = p]
    PROVE  Cardinality(Unrecorded') = Cardinality(Unrecorded) + 1
<1>1. Unrecorded' = Unrecorded \cup {w} /\ w \notin Unrecorded
  BY DEF Unrecorded
<1> QED
  BY <1>1, CountedSetsFinite, FS_AddElement

(* A worker that counted its result takes one from Unrecorded.             *)
LEMMA UnrecordedShrinks ==
    ASSUME wpc \in [Workers -> Places],
           NEW w \in Workers, wpc[w] \in RecordingPlaces,
           NEW p, p \notin RecordingPlaces, wpc' = [wpc EXCEPT ![w] = p]
    PROVE  Cardinality(Unrecorded') = Cardinality(Unrecorded) - 1
<1>1. Unrecorded' = Unrecorded \ {w} /\ w \in Unrecorded
  BY DEF Unrecorded
<1> QED
  BY <1>1, CountedSetsFinite, FS_RemoveElement

(* Any other move of a worker leaves Unrecorded alone.                     *)
LEMMA UnrecordedKept ==
    ASSUME wpc \in [Workers -> Places],
           NEW w \in Workers, NEW p, wpc' = [wpc EXCEPT ![w] = p],
           (wpc[w] \in RecordingPlaces) <=> (p \in RecordingPlaces)
    PROVE  Unrecorded' = Unrecorded
  BY DEF Unrecorded

(* A submitter that sent its job adds one to Uncounted.                    *)
LEMMA UncountedGrows ==
    ASSUME NEW s \in Submitters, spc[s] # "sent", DOMAIN spc = Submitters,
           spc' = [spc EXCEPT ![s] = "sent"]
    PROVE  Cardinality(Uncounted') = Cardinality(Uncounted) + 1
<1>1. Uncounted' = Uncounted \cup {s} /\ s \notin Uncounted
  BY DEF Uncounted
<1> QED
  BY <1>1, CountedSetsFinite, FS_AddElement

(* A submitter that counted its job takes one from Uncounted.              *)
LEMMA UncountedShrinks ==
    ASSUME NEW s \in Submitters, spc[s] = "sent", DOMAIN spc = Submitters,
           NEW p, p # "sent", spc' = [spc EXCEPT ![s] = p]
    PROVE  Cardinality(Uncounted') = Cardinality(Uncounted) - 1
<1>1. Uncounted' = Uncounted \ {s} /\ s \in Uncounted
  BY DEF Uncounted
<1> QED
  BY <1>1, CountedSetsFinite, FS_RemoveElement

(* Any other move of a submitter leaves Uncounted alone.                   *)
LEMMA UncountedKept ==
    ASSUME NEW s \in Submitters, spc[s] # "sent", DOMAIN spc = Submitters,
           NEW p, p # "sent", spc' = [spc EXCEPT ![s] = p]
    PROVE  Uncounted' = Uncounted
  BY DEF Uncounted

(* The error-rate monitor stays well typed.                                *)
LEMMA MonitorTyped ==
    ASSUME TypeOK, NEW e \in Nat, NEW s \in Nat, MonitorRecord(e, s)
    PROVE  /\ errorCount' \in Nat /\ successCount' \in Nat
           /\ circuitOpen' \in BOOLEAN /\ windowElapsed' \in BOOLEAN
<1>1. errorCount \in Nat /\ successCount \in Nat
  BY DEF TypeOK
<1>2. errorCount' \in Nat /\ successCount' \in Nat
  BY <1>1 DEF MonitorRecord
<1>3. circuitOpen' \in BOOLEAN
  BY Zenon DEF MonitorRecord
<1>4. windowElapsed' \in BOOLEAN
  BY DEF MonitorRecord
<1> QED
  BY <1>2, <1>3, <1>4

-----------------------------------------------------------------------------
(* A new pool satisfies the invariant.                                     *)
LEMMA PoolInitInv == PoolInit => PoolInv
<1> SUFFICES ASSUME PoolInit PROVE PoolInv
  OBVIOUS
<1> USE DEF PoolInit
<1>1. Uncounted = {} /\ Holding = {} /\ Unrecorded = {}
  BY DEF Uncounted, Holding, Unrecorded, HoldingPlaces, RecordingPlaces
<1>2. TypeOK
  <2>1. /\ started \in BOOLEAN /\ stopped \in BOOLEAN /\ stopReturned \in BOOLEAN
        /\ ctxDone \in BOOLEAN /\ crashed \in BOOLEAN
        /\ circuitOpen \in BOOLEAN /\ windowElapsed \in BOOLEAN
    OBVIOUS
  <2>2. /\ jobs \in Seq(Checks) /\ Len(jobs) <= QueueCap
        /\ results \in Seq(JobResult) /\ Len(results) <= ResultCap
        /\ delivered \in Seq(JobResult)
    BY EmptySeq, PoolAssumption
  <2>3. wout \in [Workers -> Outcomes]
    BY DEF Outcomes
  <2> QED
    BY <1>1, <2>1, <2>2, <2>3 DEF TypeOK
<1>3. ActiveJobsAccounting /\ ResultsCounted
  BY <1>1, FS_EmptySet DEF ActiveJobsAccounting, ResultsCounted
<1> QED
  BY <1>2, <1>3 DEF PoolInv, NoWorkerBeforeStart

(* Start, Stop, the contexts, the clock and the consumer preserve it.      *)
LEMMA LifeInv ==
    ASSUME PoolInv,
           \/ Start \/ StopBegin \/ StopDone \/ StopForced \/ ContextDone
           \/ WindowElapses \/ Receive
    PROVE  PoolInv'
<1> USE DEF PoolInv, Live, lifeVars, chanVars, countVars, submitVars, workerVars,
            rateVars
<1>1. CASE Start
  <2> USE <1>1 DEF Start
  <2>1. Holding = {} /\ Unrecorded = {}
    BY DEF NoWorkerBeforeStart, Holding, Unrecorded, HoldingPlaces,
           RecordingPlaces
  <2>2. Holding' = {} /\ Unrecorded' = {}
    BY DEF Holding, Unrecorded, HoldingPlaces, RecordingPlaces
  <2>3. Uncounted' = Uncounted
    BY DEF Uncounted
  <2>4. TypeOK'
    BY <2>2 DEF TypeOK
  <2> QED
    BY <2>1, <2>2, <2>3, <2>4
    DEF NoWorkerBeforeStart, ActiveJobsAccounting, ResultsCounted
<1>2. CASE \/ StopBegin \/ StopDone \/ StopForced \/ ContextDone
           \/ WindowElapses
  <2> USE <1>2 DEF StopBegin, StopDone, StopForced, ContextDone, WindowElapses
  <2>1. Holding' = Holding /\ Unrecorded' = Unrecorded /\ Uncounted' = Uncounted
    BY DEF Holding, Unrecorded, Uncounted
  <2>2. TypeOK'
    BY <2>1 DEF TypeOK
  <2> QED
    BY <2>1, <2>2 DEF NoWorkerBeforeStart, ActiveJobsAccounting, ResultsCounted
<1>3. CASE Receive
  <2> USE <1>3 DEF Receive
  <2>1. Holding' = Holding /\ Unrecorded' = Unrecorded /\ Uncounted' = Uncounted
    BY DEF Holding, Unrecorded, Uncounted
  <2>2. /\ Head(results) \in JobResult
        /\ results' \in Seq(JobResult) /\ Len(results') = Len(results) - 1
    BY HeadTailProperties DEF TypeOK
  <2>3. delivered' \in Seq(JobResult) /\ Len(delivered') = Len(delivered) + 1
    BY <2>2, AppendProperties DEF TypeOK
  <2>4. Len(results) \in Nat /\ Len(delivered) \in Nat
    BY LenProperties DEF TypeOK
  <2>5. TypeOK'
    BY <2>1, <2>2, <2>3, <2>4, PoolAssumption DEF TypeOK
  <2> QED
    BY <2>1, <2>2, <2>3, <2>4, <2>5, CountedSetsFinite
    DEF NoWorkerBeforeStart, ActiveJobsAccounting, ResultsCounted, TypeOK
<1> QED
  BY <1>1, <1>2, <1>3

(* Every step of Submit preserves it.                                      *)
LEMMA SubmitInv ==
    ASSUME PoolInv, NEW s \in Submitters,
           SubmitStep(s) \/ \E k \in Checks : SubmitBegin(s, k)
    PROVE  PoolInv'
<1> USE DEF PoolInv, Live, submitFrame, lifeVars, countVars, submitVars,
            workerVars, rateVars
<1>d. DOMAIN spc = Submitters /\ DOMAIN sjob = Submitters
  BY DEF TypeOK
<1>w. ASSUME UNCHANGED workerVars
      PROVE  Holding' = Holding /\ Unrecorded' = Unrecorded
  BY <1>w DEF Holding, Unrecorded
<1>1. ASSUME NEW k \in Checks, SubmitBegin(s, k)
      PROVE  PoolInv'
  <2> USE <1>1 DEF SubmitBegin
  <2>1. Uncounted' = Uncounted
    BY <1>d, UncountedKept DEF Uncounted
  <2>2. TypeOK'
    BY <1>w DEF TypeOK
  <2> QED
    BY <1>w, <2>1, <2>2
    DEF NoWorkerBeforeStart, ActiveJobsAccounting, ResultsCounted
<1>2. CASE SubmitScreen(s) \/ SubmitRefused(s) \/ SubmitGivesUp(s)
  <2> USE <1>2 DEF SubmitScreen, SubmitRefused, SubmitGivesUp, LeaveSubmit
  <2>1. Uncounted' = Uncounted
    BY <1>d, UncountedKept
  <2>2. TypeOK'
    BY <1>w DEF TypeOK
  <2> QED
    BY <1>w, <2>1, <2>2
    DEF NoWorkerBeforeStart, ActiveJobsAccounting, ResultsCounted
<1>3. CASE SubmitSend(s)
  <2> USE <1>3 DEF SubmitSend
  <2>1. Cardinality(Uncounted') = Cardinality(Uncounted) + 1
    BY <1>d, UncountedGrows
  <2>2. sjob[s] \in Checks
    BY DEF TypeOK
  <2>3. /\ jobs' \in Seq(Checks) /\ Len(jobs') = Len(jobs) + 1
        /\ Len(jobs) \in Nat
    BY <2>2, AppendProperties, LenProperties DEF TypeOK
  <2>4. TypeOK'
    BY <1>w, <2>2, <2>3, PoolAssumption DEF TypeOK
  <2> QED
    BY <1>w, <2>1, <2>3, <2>4, CountedSetsFinite
    DEF NoWorkerBeforeStart, ActiveJobsAccounting, ResultsCounted, TypeOK
<1>4. CASE SubmitPanic(s)
  <2> USE <1>4 DEF SubmitPanic
  <2>1. Uncounted' = Uncounted
    BY DEF Uncounted
  <2>2. crashed' \in BOOLEAN
    OBVIOUS
  <2>3. TypeOK'
    BY <1>w, <2>2 DEF TypeOK
  <2> QED
    BY <1>w, <2>1, <2>3
    DEF NoWorkerBeforeStart, ActiveJobsAccounting, ResultsCounted
<1>5. CASE SubmitCount(s)
  <2> USE <1>5 DEF SubmitCount
  <2>1. Cardinality(Uncounted') = Cardinality(Uncounted) - 1
    BY <1>d, UncountedShrinks
  <2>2. TypeOK'
    BY <1>w DEF TypeOK
  <2>3. Len(jobs) \in Nat /\ activeJobs \in Int
    BY LenProperties DEF TypeOK
  <2>4. ActiveJobsAccounting'
    BY <1>w, <2>1, <2>3, CountedSetsFinite DEF ActiveJobsAccounting
  <2> QED
    BY <1>w, <2>2, <2>4 DEF NoWorkerBeforeStart, ResultsCounted
<1>6. CASE SubmitReturn(s)
  <2> USE <1>6 DEF SubmitReturn, LeaveSubmit
  <2>1. Uncounted' = Uncounted
    BY <1>d, UncountedKept
  <2>2. TypeOK'
    BY <1>w DEF TypeOK
  <2> QED
    BY <1>w, <2>1, <2>2
    DEF NoWorkerBeforeStart, ActiveJobsAccounting, ResultsCounted
<1> QED
  BY <1>1, <1>2, <1>3, <1>4, <1>5, <1>6 DEF SubmitStep

(* A job taken off the queue and off activeJobs keeps the account.         *)
LEMMA OneJobLess ==
    ASSUME NEW a \in Int, NEW u \in Nat, NEW n \in Nat, NEW h \in Nat, a + u = n + h
    PROVE  (a - 1) + u = (n - 1) + h
OBVIOUS

(* Every step of a worker preserves it.                                    *)
LEMMA WorkerInv ==
    ASSUME PoolInv, NEW w \in Workers, WorkerStep(w)
    PROVE  PoolInv'
<1> USE DEF PoolInv, Live, workerFrame, lifeVars, countVars, submitVars, rateVars
<1>t. wpc \in [Workers -> Places]
  BY DEF TypeOK, Places
<1>u. Uncounted' = Uncounted
  BY DEF WorkerStep, WorkerTake, WorkerExit, WorkerLimit, WorkerRun, WorkerSend,
         WorkerAbandon, WorkerRelease, WorkerRecord, Uncounted
<1>p. /\ {"limit", "waiting", "run", "send", "release"} = HoldingPlaces
      /\ {"release", "record"} = RecordingPlaces
      /\ "record" \notin HoldingPlaces /\ "send" \notin RecordingPlaces
      /\ "idle" \notin HoldingPlaces /\ "idle" \notin RecordingPlaces
      /\ "exited" \notin HoldingPlaces /\ "exited" \notin RecordingPlaces
  BY DEF HoldingPlaces, RecordingPlaces
<1>a. /\ activeJobs \in Int
      /\ activeJobs + Cardinality(Uncounted) = Len(jobs) + Cardinality(Holding)
  BY DEF TypeOK, ActiveJobsAccounting
<1>n. Len(jobs) \in Nat /\ Len(results) \in Nat /\ Len(delivered) \in Nat
  BY LenProperties DEF TypeOK
<1>s. started' = started
  BY DEF WorkerStep, WorkerTake, WorkerExit, WorkerLimit, WorkerRun, WorkerSend,
         WorkerAbandon, WorkerRelease, WorkerRecord
<1>b. wpc[w] # "unstarted" => NoWorkerBeforeStart'
  BY <1>s DEF NoWorkerBeforeStart
<1>1. CASE WorkerTake(w)
  <2> USE <1>1 DEF WorkerTake
  <2>1. /\ Head(jobs) \in Checks
        /\ jobs' \in Seq(Checks) /\ Len(jobs') = Len(jobs) - 1
    BY HeadTailProperties DEF TypeOK
  <2>2. CASE ctxDone
    <3> USE <2>2 DEF LeaveJob
    <3>1. Holding' = Holding /\ Unrecorded' = Unrecorded
      BY <1>t, <1>p, HoldingKept, UnrecordedKept
    <3>2. TypeOK'
      BY <1>n, <2>1, <3>1, PoolAssumption
      DEF TypeOK, Holding, Unrecorded, HoldingPlaces, RecordingPlaces, Outcomes
    <3>3. ActiveJobsAccounting'
      <4>1. activeJobs' = activeJobs - 1
        OBVIOUS
      <4>2. activeJobs' + Cardinality(Uncounted)
               = Len(jobs') + Cardinality(Holding)
        <5> HIDE <1>1, <2>2 DEF WorkerTake, LeaveJob, PoolInv
        <5>1. Cardinality(Uncounted) \in Nat /\ Cardinality(Holding) \in Nat
          BY CountedSetsFinite
        <5>2. Len(jobs') = Len(jobs) - 1 /\ Len(jobs) \in Nat
          BY <1>n, <2>1
        <5> QED
          BY <1>a, <4>1, <5>1, <5>2, OneJobLess
      <4> QED
        BY <1>u, <3>1, <4>2 DEF ActiveJobsAccounting
    <3> QED
      BY <1>b, <3>1, <3>2, <3>3 DEF ResultsCounted
  <2>3. CASE ~ctxDone
    <3> USE <2>3
    <3>1. Cardinality(Holding') = Cardinality(Holding) + 1
      BY <1>t, <1>p, HoldingGrows
    <3>2. Unrecorded' = Unrecorded
      BY <1>t, <1>p, UnrecordedKept
    <3>3. TypeOK'
      BY <1>n, <2>1, PoolAssumption
      DEF TypeOK, Holding, Unrecorded, HoldingPlaces, RecordingPlaces, Outcomes
    <3>4. ActiveJobsAccounting'
      BY <1>u, <1>n, <1>a, <2>1, <3>1, CountedSetsFinite DEF ActiveJobsAccounting
    <3> QED
      BY <1>b, <3>2, <3>3, <3>4 DEF ResultsCounted
  <2> QED
    BY <2>2, <2>3
<1>2. CASE WorkerExit(w)
  <2> USE <1>2 DEF WorkerExit, LeaveJob
  <2>1. Holding' = Holding /\ Unrecorded' = Unrecorded
    BY <1>t, <1>p, HoldingKept, UnrecordedKept
  <2>2. TypeOK'
    BY <2>1
    DEF TypeOK, Holding, Unrecorded, HoldingPlaces, RecordingPlaces, Outcomes
  <2> QED
    BY <1>u, <1>b, <2>1, <2>2 DEF ActiveJobsAccounting, ResultsCounted
<1>3. CASE WorkerLimit(w) \/ WorkerRun(w)
  <2> USE <1>3 DEF WorkerLimit, LimiterWait, WorkerRun, GoTo, WithOutcome
  <2>1. PICK p \in {"run", "waiting", "send"} : wpc' = [wpc EXCEPT ![w] = p]
    OBVIOUS
  <2>2. Holding' = Holding /\ Unrecorded' = Unrecorded
    BY <1>t, <1>p, <2>1, HoldingKept, UnrecordedKept
  <2>3. wout' \in [Workers -> Outcomes] /\ UNCHANGED wjob
    BY DEF TypeOK, Outcomes
  <2>4. wpc' \in [Workers -> Places]
    BY <1>t, <1>p, <2>1 DEF Places
  <2>5. TypeOK'
    BY <2>2, <2>3, <2>4 DEF TypeOK, Places
  <2> QED
    BY <1>u, <1>b, <2>2, <2>5 DEF ActiveJobsAccounting, ResultsCounted
<1>4. CASE WorkerSend(w)
  <2> USE <1>4 DEF WorkerSend, GoTo
  <2>1. wjob[w] \in Checks
    BY <1>p DEF TypeOK, Holding
  <2>2. [check |-> wjob[w], kind |-> wout[w]] \in JobResult
    BY <2>1 DEF TypeOK, JobResult
  <2>3. results' \in Seq(JobResult) /\ Len(results') = Len(results) + 1
    BY <2>2, AppendProperties DEF TypeOK
  <2>4. Holding' = Holding
    BY <1>t, <1>p, HoldingKept
  <2>5. Cardinality(Unrecorded') = Cardinality(Unrecorded) + 1
    BY <1>t, <1>p, UnrecordedGrows
  <2>6. TypeOK'
    BY <1>n, <2>1, <2>3, <2>4, PoolAssumption
    DEF TypeOK, Holding, Unrecorded, HoldingPlaces, RecordingPlaces
  <2> QED
    BY <1>u, <1>n, <1>b, <2>3, <2>4, <2>5, <2>6, CountedSetsFinite
    DEF ActiveJobsAccounting, ResultsCounted, TypeOK
<1>5. CASE WorkerAbandon(w)
  <2> USE <1>5 DEF WorkerAbandon, LeaveJob
  <2>1. Cardinality(Holding') = Cardinality(Holding) - 1
    BY <1>t, <1>p, HoldingShrinks
  <2>2. Unrecorded' = Unrecorded
    BY <1>t, <1>p, UnrecordedKept
  <2>3. TypeOK'
    BY DEF TypeOK, Holding, Unrecorded, HoldingPlaces, RecordingPlaces, Outcomes
  <2>4. ActiveJobsAccounting'
    BY <1>u, <1>n, <1>a, <2>1, CountedSetsFinite DEF ActiveJobsAccounting
  <2> QED
    BY <1>b, <2>2, <2>3, <2>4 DEF ResultsCounted
<1>6. CASE WorkerRelease(w)
  <2> USE <1>6 DEF WorkerRelease, GoTo
  <2>1. Cardinality(Holding') = Cardinality(Holding) - 1
    BY <1>t, <1>p, HoldingShrinks
  <2>2. Unrecorded' = Unrecorded
    BY <1>t, <1>p, UnrecordedKept
  <2>3. TypeOK'
    BY DEF TypeOK, Holding, Unrecorded, HoldingPlaces, RecordingPlaces
  <2>4. ActiveJobsAccounting'
    BY <1>u, <1>n, <1>a, <2>1, CountedSetsFinite DEF ActiveJobsAccounting
  <2> QED
    BY <1>b, <2>2, <2>3, <2>4 DEF ResultsCounted
<1>7. CASE WorkerRecord(w)
  <2> USE <1>7 DEF WorkerRecord, LeaveJob
  <2>1. Holding' = Holding
    BY <1>t, <1>p, HoldingKept
  <2>2. Cardinality(Unrecorded') = Cardinality(Unrecorded) - 1
    BY <1>t, <1>p, UnrecordedShrinks
  <2>3. wout[w] \in {"ok", "err", "ratelimit"}
    BY DEF TypeOK, Outcomes
  <2>c. completedJobs \in Nat /\ failedJobs \in Nat
    BY DEF TypeOK
  <2>4. /\ completedJobs' \in Nat /\ failedJobs' \in Nat
        /\ completedJobs' + failedJobs' = completedJobs + failedJobs + 1
    <3>1. CASE wout[w] = "ok"
      BY <2>c, <3>1
    <3>2. CASE wout[w] = "err"
      BY <2>c, <3>2
    <3>3. CASE wout[w] = "ratelimit"
      BY <2>c, <3>3
    <3> QED
      BY <2>3, <3>1, <3>2, <3>3
  <2>5. /\ errorCount' \in Nat /\ successCount' \in Nat
        /\ circuitOpen' \in BOOLEAN /\ windowElapsed' \in BOOLEAN
    <3>1. CASE wout[w] = "ok"
      BY <3>1, MonitorTyped
    <3>2. CASE wout[w] = "err"
      BY <3>2, MonitorTyped
    <3>3. CASE wout[w] = "ratelimit"
      BY <3>3 DEF TypeOK
    <3> QED
      BY <2>3, <3>1, <3>2, <3>3
  <2>6. TypeOK'
    BY <2>4, <2>5
    DEF TypeOK, Holding, Unrecorded, HoldingPlaces, RecordingPlaces, Outcomes
  <2>7. ResultsCounted'
    BY <1>n, <2>2, <2>4, CountedSetsFinite DEF ResultsCounted, TypeOK
  <2> QED
    BY <1>u, <1>b, <2>1, <2>6, <2>7 DEF ActiveJobsAccounting
<1> QED
  BY <1>1, <1>2, <1>3, <1>4, <1>5, <1>6, <1>7 DEF WorkerStep

-----------------------------------------------------------------------------
(* Every step of the pool preserves it.                                    *)
LEMMA PoolNextInv ==
    ASSUME PoolInv, [PoolNext]_poolVars
    PROVE  PoolInv'
<1>1. CASE UNCHANGED poolVars
  <2> USE <1>1 DEF poolVars, lifeVars, chanVars, countVars, submitVars, workerVars,
                   rateVars
  <2>1. Holding' = Holding /\ Unrecorded' = Unrecorded /\ Uncounted' = Uncounted
    BY DEF Holding, Unrecorded, Uncounted
  <2> QED
    BY <2>1 DEF PoolInv, TypeOK, NoWorkerBeforeStart, ActiveJobsAccounting, ResultsCounted
<1> QED
  BY <1>1, LifeInv, SubmitInv, WorkerInv DEF PoolNext

(* The invariant holds in every reachable state of the pool.               *)
THEOREM PoolInductive == PoolSpec => []PoolInv
<1>1. PoolInv /\ [PoolNext]_poolVars => PoolInv'
  BY PoolNextInv
<1> QED
  BY PoolInitInv, <1>1, PTL DEF PoolSpec

(* Type correctness: channels within capacity, every held job a check.     *)
THEOREM TypeCorrect == PoolSpec => []TypeOK
<1>1. PoolInv => TypeOK
  BY DEF PoolInv
<1> QED
  BY PoolInductive, <1>1, PTL

(* activeJobs is the number of jobs queued or held, short of the Submits   *)
(* between send and count.                                                 *)
THEOREM ActiveJobsExact == PoolSpec => []ActiveJobsAccounting
<1>1. PoolInv => ActiveJobsAccounting
  BY DEF PoolInv
<1> QED
  BY PoolInductive, <1>1, PTL

(* Every result is counted once as completed or failed.                    *)
THEOREM CountersExact == PoolSpec => []ResultsCounted
<1>1. PoolInv => ResultsCounted
  BY DEF PoolInv
<1> QED
  BY PoolInductive, <1>1, PTL

(* WaitForCompletion's test activeJobs = 0 means that nothing is queued or *)
(* held, whenever no Submit is between its send and its count.             *)
THEOREM WaitIsSound == PoolSpec => []WaitSound
<1>1. PoolInv => WaitSound
  <2> SUFFICES ASSUME PoolInv, activeJobs = 0, Uncounted = {}
               PROVE  jobs = <<>> /\ Holding = {}
    BY DEF WaitSound
  <2>1. Cardinality(Uncounted) = 0
    BY FS_EmptySet
  <2>2. jobs \in Seq(Checks) /\ Len(jobs) \in Nat
    BY LenProperties DEF PoolInv, TypeOK
  <2>3. Len(jobs) = 0 /\ Cardinality(Holding) = 0
    BY <2>1, <2>2, CountedSetsFinite DEF PoolInv, ActiveJobsAccounting
  <2>4. jobs = <<>>
    BY <2>2, <2>3, EmptySeq
  <2>5. Holding = {}
    BY <2>3, CountedSetsFinite, FS_EmptySet
  <2> QED
    BY <2>4, <2>5
<1> QED
  BY PoolInductive, <1>1, PTL

(* An open error-rate circuit over a drained pool stays open for ever: the *)
(* only code that closes it runs after a job, and no job gets in.          *)
THEOREM CircuitLatches == PoolSpec => DrainedCircuitLatches
<1>1. TypeOK /\ [PoolNext]_poolVars =>
        (circuitOpen /\ Drained => circuitOpen' /\ Drained')
  <2> SUFFICES ASSUME TypeOK, [PoolNext]_poolVars, circuitOpen, Drained
               PROVE  circuitOpen' /\ Drained'
    OBVIOUS
  <2> USE DEF Live, lifeVars, chanVars, countVars, submitVars, workerVars,
              rateVars, Drained
  <2>1. CASE Start
    BY <2>1 DEF Start
  <2>2. CASE \/ StopBegin \/ StopDone \/ StopForced \/ ContextDone
             \/ WindowElapses \/ Receive
    BY <2>2 DEF StopBegin, StopDone, StopForced, ContextDone, WindowElapses,
                Receive
  <2>3. ASSUME NEW s \in Submitters,
               SubmitStep(s) \/ \E k \in Checks : SubmitBegin(s, k)
        PROVE  circuitOpen' /\ Drained'
    BY <2>3
    DEF TypeOK, submitFrame, SubmitStep, SubmitBegin, SubmitScreen,
        SubmitRefused, SubmitSend, SubmitPanic, SubmitGivesUp, SubmitCount,
        SubmitReturn, LeaveSubmit
  <2>4. ASSUME NEW w \in Workers, WorkerStep(w)
        PROVE  circuitOpen' /\ Drained'
    <3>1. WorkerExit(w)
      BY <2>4
      DEF WorkerStep, WorkerTake, WorkerLimit, LimiterWait, WorkerRun,
          WorkerSend, WorkerAbandon, WorkerRelease, WorkerRecord
    <3> QED
      BY <3>1 DEF TypeOK, WorkerExit, workerFrame, LeaveJob
  <2>5. CASE UNCHANGED poolVars
    BY <2>5 DEF poolVars
  <2> QED
    BY <2>1, <2>2, <2>3, <2>4, <2>5 DEF PoolNext
<1> QED
  BY TypeCorrect, <1>1, PTL DEF PoolSpec, DrainedCircuitLatches

-----------------------------------------------------------------------------
(* A job sent to the queue, and one taken from it.                         *)
LEMMA QueueGrows ==
    ASSUME jobs \in Seq(Checks), Distinct(jobs), NEW k \in Checks \ Queued,
           jobs' = Append(jobs, k)
    PROVE  Distinct(jobs') /\ Queued' = Queued \cup {k}
<1> DEFINE n == Len(jobs)
<1>1. /\ n \in Nat /\ DOMAIN jobs = 1..n /\ DOMAIN jobs' = 1..(n + 1)
      /\ Len(jobs') = n + 1 /\ jobs'[n + 1] = k
      /\ \A i \in 1..n : jobs'[i] = jobs[i]
  BY AppendProperties, LenProperties
<1>2. \A i \in 1..n : jobs[i] \in Queued
  BY <1>1 DEF Queued
<1> HIDE DEF n
<1>3. \A i \in 1..(n + 1) : i \in 1..n \/ i = n + 1
  BY <1>1
<1>4. Distinct(jobs')
  <2> SUFFICES ASSUME NEW i \in 1..(n + 1), NEW j \in 1..(n + 1), jobs'[i] = jobs'[j]
               PROVE  i = j
    BY <1>1 DEF Distinct
  <2> QED
    BY <1>1, <1>2, <1>3 DEF Distinct, n
<1>5. Queued' = Queued \cup {k}
  <2>1. ASSUME NEW x \in Queued' PROVE x \in Queued \cup {k}
    BY <1>1, <1>2, <1>3, <2>1 DEF Queued
  <2>2. ASSUME NEW x \in Queued PROVE x \in Queued'
    <3>1. PICK i \in 1..n : x = jobs[i]
      BY <1>1, <2>2 DEF Queued
    <3>2. i \in 1..(n + 1) /\ jobs'[i] = x
      BY <1>1, <3>1
    <3> QED
      BY <1>1, <3>2 DEF Queued
  <2>3. k \in Queued'
    <3>1. n + 1 \in DOMAIN jobs'
      BY <1>1
    <3> QED
      BY <1>1, <3>1 DEF Queued
  <2> QED
    BY <2>1, <2>2, <2>3
<1> QED
  BY <1>4, <1>5

LEMMA QueueShrinks ==
    ASSUME jobs \in Seq(Checks), Distinct(jobs), jobs # <<>>, jobs' = Tail(jobs)
    PROVE  /\ Distinct(jobs')
           /\ Head(jobs) \in Queued /\ Queued' = Queued \ {Head(jobs)}
<1> DEFINE n == Len(jobs)
<1>1. /\ n \in Nat /\ n > 0 /\ DOMAIN jobs = 1..n /\ DOMAIN jobs' = 1..(n - 1)
      /\ Len(jobs') = n - 1 /\ Head(jobs) = jobs[1]
      /\ \A i \in 1..(n - 1) : jobs'[i] = jobs[i + 1]
  BY HeadTailProperties, LenProperties, EmptySeq
<1>2. \A i, j \in 1..n : jobs[i] = jobs[j] => i = j
  BY DEF Distinct
<1> HIDE DEF n
<1>3. /\ 1 \in 1..n
      /\ \A i \in 1..(n - 1) : i \in Nat /\ i + 1 \in 1..n /\ i + 1 # 1
      /\ \A i \in 1..n : i = 1 \/ (i - 1 \in 1..(n - 1) /\ i = (i - 1) + 1)
  BY <1>1
<1>4. Distinct(jobs')
  <2> SUFFICES ASSUME NEW i \in 1..(n - 1), NEW j \in 1..(n - 1), jobs'[i] = jobs'[j]
               PROVE  i = j
    BY <1>1 DEF Distinct
  <2>1. i + 1 = j + 1
    BY <1>1, <1>2, <1>3
  <2> QED
    BY <2>1, <1>3
<1>5. Head(jobs) \in Queued
  BY <1>1, <1>3 DEF Queued
<1>6. ASSUME NEW x \in Queued' PROVE x \in Queued \ {Head(jobs)}
  <2>1. PICK i \in 1..(n - 1) : x = jobs[i + 1]
    BY <1>1, <1>6 DEF Queued
  <2>2. x \in Queued
    BY <1>1, <1>3, <2>1 DEF Queued
  <2>3. x # jobs[1]
    BY <1>2, <1>3, <2>1
  <2> QED
    BY <2>2, <2>3, <1>1
<1>7. ASSUME NEW x \in Queued \ {Head(jobs)} PROVE x \in Queued'
  <2>1. PICK i \in 1..n : x = jobs[i]
    BY <1>1, <1>7 DEF Queued
  <2>2. i # 1
    BY <1>1, <1>7, <2>1
  <2>3. i - 1 \in 1..(n - 1) /\ jobs'[i - 1] = x
    BY <1>1, <1>3, <2>1, <2>2
  <2> QED
    BY <1>1, <2>3 DEF Queued
<1> QED
  BY <1>4, <1>5, <1>6, <1>7

(* The results in the order they were sent: a worker's send extends them,  *)
(* and the consumer's receive does not change them.                        *)
LEMMA OutcomeType ==
    ASSUME TypeOK
    PROVE  /\ Outcome \in Seq(JobResult)
           /\ Len(Outcome) = Len(delivered) + Len(results)
           /\ Len(Outcome) \in Nat /\ DOMAIN Outcome = 1..Len(Outcome)
           /\ \A i \in 1..Len(Outcome) : Outcome[i] \in JobResult
<1>1. delivered \in Seq(JobResult) /\ results \in Seq(JobResult)
  BY DEF TypeOK
<1>2. Outcome \in Seq(JobResult) /\ Len(Outcome) = Len(delivered) + Len(results)
  BY <1>1, ConcatProperties DEF Outcome
<1> QED
  BY <1>2, LenProperties, ElementOfSeq

LEMMA OutcomeGrows ==
    ASSUME TypeOK, NEW r \in JobResult, results' = Append(results, r), UNCHANGED delivered
    PROVE  Outcome' = Append(Outcome, r)
<1>1. delivered \in Seq(JobResult) /\ results \in Seq(JobResult)
  BY DEF TypeOK
<1>2. delivered \o Append(results, r) = Append(delivered \o results, r)
  BY <1>1, ConcatProperties, AppendProperties, LenProperties
<1> QED
  BY <1>2 DEF Outcome

LEMMA OutcomeKept ==
    ASSUME TypeOK, Receive
    PROVE  Outcome' = Outcome
<1>1. /\ delivered \in Seq(JobResult) /\ results \in Seq(JobResult) /\ results # <<>>
      /\ delivered' = Append(delivered, Head(results)) /\ results' = Tail(results)
  BY DEF TypeOK, Receive
<1>2. Append(delivered, Head(results)) \o Tail(results) = delivered \o results
  BY <1>1
<1> QED
  BY <1>1, <1>2 DEF Outcome

(* A result sent resolves its check, which had no result before.           *)
LEMMA ResolvedGrows ==
    ASSUME TypeOK, NEW r \in JobResult, r.check \notin Resolved,
           \A i, j \in 1..Len(Outcome) : Outcome[i].check = Outcome[j].check => i = j,
           results' = Append(results, r), UNCHANGED delivered
    PROVE  /\ \A i, j \in 1..Len(Outcome') : Outcome'[i].check = Outcome'[j].check => i = j
           /\ Resolved' = Resolved \cup {r.check}
<1> DEFINE n == Len(Outcome)
           o == Outcome
           p == Outcome'
<1>1. p = Append(o, r)
  BY OutcomeGrows
<1>2. /\ n \in Nat /\ DOMAIN o = 1..n /\ DOMAIN p = 1..(n + 1) /\ Len(p) = n + 1
      /\ p[n + 1] = r /\ \A i \in 1..n : p[i] = o[i]
  BY <1>1, OutcomeType, AppendProperties, LenProperties
<1>3. Resolved = {o[i].check : i \in 1..n} /\ Resolved' = {p[i].check : i \in 1..(n + 1)}
  BY <1>2 DEF Resolved
<1>4. \A i, j \in 1..n : o[i].check = o[j].check => i = j
  OBVIOUS
<1> HIDE DEF n, o, p
<1>5. \A i \in 1..(n + 1) : i \in 1..n \/ i = n + 1
  BY <1>2
<1>6. \A i, j \in 1..(n + 1) : p[i].check = p[j].check => i = j
  BY <1>2, <1>3, <1>4, <1>5
<1>7. Resolved' = Resolved \cup {r.check}
  <2>1. n + 1 \in 1..(n + 1) /\ \A i \in 1..n : i \in 1..(n + 1)
    BY <1>2
  <2> QED
    BY <1>2, <1>3, <1>5, <2>1
<1> QED
  BY <1>2, <1>6, <1>7 DEF p

LEMMA CarryingPlaces ==
    Carrying = {w \in Workers : wpc[w] \in {"limit", "waiting", "run", "send"}}
  BY DEF Carrying, Holding, Unrecorded, HoldingPlaces, RecordingPlaces

(* The places that the jobs of a queue, of the workers and of the results  *)
(* take depend on these variables only.                                    *)
LEMMA SamePlaces ==
    /\ UNCHANGED jobs => Queued' = Queued
    /\ UNCHANGED <<wpc, wjob>> => Carrying' = Carrying /\ InHand' = InHand
    /\ UNCHANGED <<results, delivered>> => Outcome' = Outcome /\ Resolved' = Resolved
    /\ UNCHANGED spc => Offering' = Offering
<1>1. UNCHANGED jobs => Queued' = Queued
  BY DEF Queued
<1>2. UNCHANGED <<wpc, wjob>> => Carrying' = Carrying /\ InHand' = InHand
  BY DEF Carrying, InHand, Holding, Unrecorded
<1>3. UNCHANGED <<results, delivered>> => Outcome' = Outcome /\ Resolved' = Resolved
  BY DEF Outcome, Resolved
<1>4. UNCHANGED spc => Offering' = Offering
  BY DEF Offering
<1> QED
  BY <1>1, <1>2, <1>3, <1>4

LEMMA PoolInitPlaced == PoolInit => Placed
<1> SUFFICES ASSUME PoolInit PROVE Placed
  OBVIOUS
<1>1. jobs = <<>> /\ results = <<>> /\ delivered = <<>> /\ accepted = {} /\ tried = {}
  BY DEF PoolInit
<1>2. Carrying = {} /\ Offering = {}
  BY CarryingPlaces DEF PoolInit, Offering
<1>3. InHand = {}
  BY <1>2 DEF InHand, Carrying
<1>4. Len(<<>>) = 0 /\ DOMAIN <<>> = {} /\ 1..0 = {}
  BY EmptySeq
<1>5. Outcome = <<>>
  <2>1. <<>> \in Seq(JobResult)
    BY EmptySeq
  <2> QED
    BY <1>1, <2>1, ConcatEmptySeq DEF Outcome
<1>6. Queued = {} /\ Resolved = {}
  BY <1>1, <1>4, <1>5 DEF Queued, Resolved
<1>7. JobsApart
  BY <1>1, <1>2, <1>3, <1>4, <1>5, <1>6 DEF JobsApart, Distinct
<1>8. JobsKnown /\ OffersFresh
  BY <1>1, <1>2, <1>3, <1>6 DEF JobsKnown, OffersFresh
<1> QED
  BY <1>7, <1>8 DEF Placed

(* Starting, stopping, the contexts and the consumer move no job.          *)
LEMMA LifePlaced ==
    ASSUME PoolInv, Placed,
           \/ Start \/ StopBegin \/ StopDone \/ StopForced \/ ContextDone
           \/ WindowElapses \/ Receive
    PROVE  Placed'
<1>1. UNCHANGED <<jobs, wjob, accepted, tried, spc, sjob>> /\ (ctxDone => ctxDone')
  BY DEF Start, StopBegin, StopDone, StopForced, ContextDone, WindowElapses, Receive,
         chanVars, submitVars, workerVars
<1>2. Outcome' = Outcome
  <2>1. CASE Receive
    BY <2>1, OutcomeKept DEF PoolInv
  <2>2. CASE ~Receive
    <3>1. UNCHANGED <<results, delivered>>
      BY <2>2 DEF Start, StopBegin, StopDone, StopForced, ContextDone, WindowElapses, chanVars
    <3> QED
      BY <3>1, SamePlaces
  <2> QED
    BY <2>1, <2>2
<1>3. Carrying' = Carrying /\ InHand' = InHand
  <2>1. CASE Start
    <3>1. Carrying = {}
      BY <2>1, CarryingPlaces DEF Start, PoolInv, NoWorkerBeforeStart
    <3>2. Carrying' = {}
      BY <2>1 DEF Start, Carrying, Holding, Unrecorded, HoldingPlaces, RecordingPlaces
    <3> QED
      BY <3>1, <3>2 DEF InHand, Carrying
  <2>2. CASE ~Start
    <3>1. UNCHANGED <<wpc, wjob>>
      BY <2>2 DEF StopBegin, StopDone, StopForced, ContextDone, WindowElapses, Receive,
                  workerVars
    <3> QED
      BY <3>1, SamePlaces
  <2> QED
    BY <2>1, <2>2
<1>4. Queued' = Queued /\ Offering' = Offering
  BY <1>1, SamePlaces
<1>5. Resolved' = Resolved
  BY <1>2 DEF Resolved
<1>6. JobsApart'
  BY <1>1, <1>2, <1>3, <1>4, <1>5 DEF Placed, JobsApart, Distinct
<1>7. JobsKnown' /\ OffersFresh'
  BY <1>1, <1>3, <1>4, <1>5 DEF Placed, JobsKnown, OffersFresh
<1> QED
  BY <1>6, <1>7 DEF Placed

(* Submit offers a check that was never offered before and, with its send, *)
(* gives it its first place.                                               *)
LEMMA SubmitPlaced ==
    ASSUME PoolInv, Placed, NEW s \in Submitters,
           SubmitStep(s) \/ \E k \in Checks : SubmitBegin(s, k)
    PROVE  Placed'
<1> USE DEF PoolInv, Placed, Live, submitFrame, submitVars, workerVars
<1>t. /\ spc \in [Submitters -> {"idle", "screen", "sending", "sent", "counted"}]
      /\ sjob \in [Submitters -> Checks \cup {None}]
      /\ jobs \in Seq(Checks) /\ accepted \subseteq tried
      /\ \A r \in Submitters : spc[r] # "idle" => sjob[r] \in Checks
  BY DEF TypeOK, JobsKnown
<1>f. UNCHANGED <<wpc, wjob, results, delivered, ctxDone>>
  BY DEF SubmitStep, SubmitBegin, SubmitScreen, SubmitRefused, SubmitSend, SubmitPanic,
         SubmitGivesUp, SubmitCount, SubmitReturn
<1>g. /\ Carrying' = Carrying /\ InHand' = InHand
      /\ Outcome' = Outcome /\ Resolved' = Resolved
  BY <1>f, SamePlaces
<1>1. ASSUME UNCHANGED jobs, UNCHANGED accepted, tried \subseteq tried'
      PROVE  JobsApart' /\ JobsKnown'
  <2>1. Queued' = Queued
    BY <1>1, SamePlaces
  <2>2. JobsApart'
    BY <1>1, <1>f, <1>g, <2>1 DEF JobsApart, Distinct
  <2> QED
    BY <1>1, <1>f, <1>g, <2>1, <2>2 DEF JobsKnown
<1>2. ASSUME NEW k \in Checks, SubmitBegin(s, k)
      PROVE  Placed'
  <2> USE <1>2 DEF SubmitBegin
  <2>1. CASE started /\ ~stopped
    <3>1. /\ spc' = [spc EXCEPT ![s] = "screen"] /\ sjob' = [sjob EXCEPT ![s] = k]
          /\ k \notin tried /\ tried' = tried \cup {k} /\ accepted' = accepted
      BY <2>1
    <3>2. /\ Offering' = Offering \cup {s} /\ sjob'[s] = k
          /\ \A r \in Offering \ {s} : r \in Submitters /\ sjob'[r] = sjob[r]
      BY <1>t, <3>1 DEF Offering
    <3>3. OffersFresh'
      BY <1>t, <3>1, <3>2 DEF OffersFresh
    <3> QED
      BY <1>1, <3>3
  <2>2. CASE ~(started /\ ~stopped)
    <3>1. UNCHANGED <<spc, sjob, accepted>> /\ tried \subseteq tried'
      BY <2>2
    <3>2. OffersFresh'
      BY <3>1, SamePlaces DEF OffersFresh
    <3> QED
      BY <1>1, <3>1, <3>2
  <2> QED
    BY <2>1, <2>2
<1>3. ASSUME NEW p \in {"idle", "sending", "sent", "counted"}, spc' = [spc EXCEPT ![s] = p],
             p = "sending" => s \in Offering,
             \A r \in Submitters \ {s} : sjob'[r] = sjob[r],
             p # "idle" => sjob'[s] = sjob[s],
             UNCHANGED <<jobs, tried, accepted>>
      PROVE  Placed'
  <2>1. /\ Offering' \subseteq Offering
        /\ \A r \in Offering' : sjob'[r] = sjob[r]
    BY <1>t, <1>3 DEF Offering
  <2>2. OffersFresh'
    BY <2>1, <1>3 DEF OffersFresh
  <2> QED
    BY <1>1, <1>3, <2>2
<1>4. CASE SubmitScreen(s) \/ SubmitRefused(s) \/ SubmitGivesUp(s)
  <2>1. CASE LeaveSubmit(s)
    BY <1>t, <1>3, <1>4, <2>1
    DEF SubmitScreen, SubmitRefused, SubmitGivesUp, LeaveSubmit
  <2>2. CASE ~LeaveSubmit(s)
    <3>1. /\ spc' = [spc EXCEPT ![s] = "sending"] /\ UNCHANGED <<sjob, jobs, tried, accepted>>
          /\ s \in Offering
      BY <1>4, <2>2 DEF SubmitScreen, SubmitRefused, SubmitGivesUp, Offering
    <3> QED
      BY <1>3, <3>1
  <2> QED
    BY <2>1, <2>2
<1>5. CASE SubmitCount(s) \/ SubmitReturn(s)
  BY <1>t, <1>3, <1>5 DEF SubmitCount, SubmitReturn, LeaveSubmit
<1>6. CASE SubmitPanic(s)
  <2>1. UNCHANGED <<jobs, tried, accepted, spc, sjob>>
    BY <1>6 DEF SubmitPanic
  <2>2. OffersFresh'
    BY <2>1, SamePlaces DEF OffersFresh
  <2> QED
    BY <1>1, <2>1, <2>2
<1>7. CASE SubmitSend(s)
  <2> DEFINE k == sjob[s]
  <2>1. /\ spc[s] = "sending" /\ jobs' = Append(jobs, k) /\ accepted' = accepted \cup {k}
        /\ spc' = [spc EXCEPT ![s] = "sent"] /\ UNCHANGED <<sjob, tried>>
    BY <1>7 DEF SubmitSend
  <2>2. s \in Offering /\ k \in Checks /\ k \in tried \ accepted
    BY <1>t, <2>1 DEF Offering, OffersFresh
  <2>3. k \notin Queued \cup InHand \cup Resolved
    BY <2>2 DEF JobsKnown
  <2>4. Distinct(jobs') /\ Queued' = Queued \cup {k}
    BY <1>t, <2>1, <2>2, <2>3, QueueGrows DEF JobsApart
  <2>5. Offering' = Offering \ {s}
    BY <1>t, <2>1 DEF Offering
  <2> HIDE DEF k
  <2>6. JobsApart'
    BY <1>f, <1>g, <2>3, <2>4 DEF JobsApart
  <2>7. JobsKnown'
    BY <1>f, <1>g, <2>1, <2>2, <2>4 DEF JobsKnown
  <2>8. OffersFresh'
    BY <2>1, <2>2, <2>5 DEF OffersFresh, k
  <2> QED
    BY <2>6, <2>7, <2>8
<1> QED
  BY <1>2, <1>4, <1>5, <1>6, <1>7 DEF SubmitStep

(* A worker moves a job from the queue to its hand, from its hand to the   *)
(* results, or, once p.ctx is done, drops it.                              *)
LEMMA WorkerPlaced ==
    ASSUME PoolInv, Placed, NEW w \in Workers, WorkerStep(w)
    PROVE  Placed'
<1> USE DEF PoolInv, Placed, Live, workerFrame, submitVars
<1>t. /\ wpc \in [Workers -> Places] /\ wjob \in [Workers -> Checks \cup {None}]
      /\ jobs \in Seq(Checks) /\ wout \in [Workers -> Outcomes]
  BY DEF TypeOK, Places
<1>f. UNCHANGED <<spc, sjob, tried, accepted, delivered, ctxDone>>
  BY DEF WorkerStep, WorkerTake, WorkerExit, WorkerLimit, WorkerRun, WorkerSend,
         WorkerAbandon, WorkerRelease, WorkerRecord
<1>o. OffersFresh'
  BY <1>f, SamePlaces DEF OffersFresh
<1>i. /\ InHand = {wjob[v] : v \in Carrying} /\ InHand' = {wjob'[v] : v \in Carrying'}
      /\ Carrying \subseteq Workers
  BY DEF InHand, Carrying, Holding
<1>a. /\ Queued \cap InHand = {} /\ (Queued \cup InHand) \cap Resolved = {}
      /\ \A u, v \in Carrying : wjob[u] = wjob[v] => u = v
  BY DEF JobsApart
<1>r. UNCHANGED results => Outcome' = Outcome /\ Resolved' = Resolved
  BY <1>f, SamePlaces
<1>1. ASSUME w \notin Carrying, w \notin Carrying',
             \A v \in Workers \ {w} : wpc'[v] = wpc[v] /\ wjob'[v] = wjob[v],
             UNCHANGED <<jobs, results>>
      PROVE  Placed'
  <2>1. Carrying' = Carrying /\ \A v \in Carrying : wjob'[v] = wjob[v]
    BY <1>1, CarryingPlaces DEF Carrying, Holding, Unrecorded
  <2>2. InHand' = InHand
    BY <1>i, <2>1
  <2>3. Queued' = Queued
    BY <1>1, SamePlaces
  <2>4. JobsApart'
    BY <1>1, <1>r, <2>1, <2>2, <2>3 DEF JobsApart, Distinct
  <2>5. JobsKnown'
    BY <1>1, <1>f, <1>r, <2>2, <2>3 DEF JobsKnown
  <2> QED
    BY <1>o, <2>4, <2>5
<1>2. CASE WorkerExit(w) \/ WorkerRelease(w) \/ WorkerRecord(w)
  <2>1. PICK p \in {"exited", "record", "idle"} : wpc' = [wpc EXCEPT ![w] = p]
    BY <1>2 DEF WorkerExit, WorkerRelease, WorkerRecord, LeaveJob, GoTo
  <2>2. wpc[w] \in {"idle", "release", "record"} /\ UNCHANGED <<jobs, results>>
        /\ \A v \in Workers \ {w} : wjob'[v] = wjob[v]
    BY <1>2, <1>t DEF WorkerExit, WorkerRelease, WorkerRecord, LeaveJob, GoTo
  <2>3. w \notin Carrying /\ w \notin Carrying'
    BY <1>t, <2>1, <2>2 DEF Carrying, Holding, Unrecorded, HoldingPlaces, RecordingPlaces
  <2> QED
    BY <1>1, <1>t, <2>1, <2>2, <2>3
<1>3. CASE WorkerLimit(w) \/ WorkerRun(w)
  <2>1. PICK p \in {"run", "waiting", "send"} : wpc' = [wpc EXCEPT ![w] = p]
    BY <1>3 DEF WorkerLimit, LimiterWait, WorkerRun, GoTo, WithOutcome
  <2>2. wpc[w] \in {"limit", "waiting", "run"} /\ UNCHANGED <<jobs, results, wjob>>
    BY <1>3 DEF WorkerLimit, LimiterWait, WorkerRun, GoTo, WithOutcome
  <2>3. Carrying' = Carrying
    BY <1>t, <2>1, <2>2 DEF Carrying, Holding, Unrecorded, HoldingPlaces, RecordingPlaces
  <2>4. InHand' = InHand /\ Queued' = Queued
    BY <1>i, <2>2, <2>3, SamePlaces
  <2>5. JobsApart'
    BY <1>r, <2>2, <2>3, <2>4 DEF JobsApart, Distinct
  <2>6. JobsKnown'
    BY <1>f, <1>r, <2>2, <2>4 DEF JobsKnown
  <2> QED
    BY <1>o, <2>5, <2>6
<1>4. CASE WorkerTake(w)
  <2> DEFINE k == Head(jobs)
  <2>1. /\ wpc[w] = "idle" /\ jobs # <<>> /\ jobs' = Tail(jobs) /\ UNCHANGED results
    BY <1>4 DEF WorkerTake
  <2>2. Distinct(jobs') /\ k \in Queued /\ Queued' = Queued \ {k}
    BY <1>t, <2>1, QueueShrinks DEF JobsApart
  <2>3. w \notin Carrying
    BY <2>1 DEF Carrying, Holding, HoldingPlaces
  <2>4. CASE ctxDone
    <3>1. wpc' = [wpc EXCEPT ![w] = "exited"] /\ wjob' = [wjob EXCEPT ![w] = None]
      BY <1>4, <2>4 DEF WorkerTake, LeaveJob
    <3>2. Carrying' = Carrying /\ \A v \in Carrying : wjob'[v] = wjob[v]
      BY <1>t, <2>1, <2>3, <3>1
      DEF Carrying, Holding, Unrecorded, HoldingPlaces, RecordingPlaces
    <3>3. InHand' = InHand
      BY <1>i, <3>2
    <3> HIDE DEF k
    <3>4. JobsApart'
      BY <1>r, <2>1, <2>2, <3>2, <3>3 DEF JobsApart
    <3>5. JobsKnown'
      BY <1>f, <1>r, <2>1, <2>2, <2>4, <3>3 DEF JobsKnown
    <3> QED
      BY <1>o, <3>4, <3>5
  <2>5. CASE ~ctxDone
    <3>1. wpc' = [wpc EXCEPT ![w] = "limit"] /\ wjob' = [wjob EXCEPT ![w] = k]
      BY <1>4, <2>5 DEF WorkerTake
    <3>2. /\ Carrying' = Carrying \cup {w} /\ wjob'[w] = k
          /\ \A v \in Carrying : wjob'[v] = wjob[v]
      BY <1>t, <2>1, <2>3, <3>1
      DEF Carrying, Holding, Unrecorded, HoldingPlaces, RecordingPlaces
    <3> HIDE DEF k
    <3>3. InHand' = InHand \cup {k}
      BY <1>i, <3>2
    <3>4. \A u, v \in Carrying' : wjob'[u] = wjob'[v] => u = v
      <4>1. \A v \in Carrying : wjob[v] # k
        BY <1>i, <1>a, <2>2
      <4> QED
        BY <1>a, <3>2, <4>1
    <3>5. JobsApart'
      BY <1>a, <1>r, <2>1, <2>2, <3>3, <3>4 DEF JobsApart
    <3>6. JobsKnown'
      BY <1>f, <1>r, <2>1, <2>2, <3>3 DEF JobsKnown
    <3> QED
      BY <1>o, <3>5, <3>6
  <2> QED
    BY <2>4, <2>5
<1>5. ASSUME wpc[w] = "send", NEW p \in {"release", "exited"},
             wpc' = [wpc EXCEPT ![w] = p], \A v \in Workers \ {w} : wjob'[v] = wjob[v],
             UNCHANGED jobs
      PROVE  /\ w \in Carrying /\ wjob[w] \in InHand
             /\ InHand' = InHand \ {wjob[w]} /\ Queued' = Queued
             /\ \A u, v \in Carrying' : wjob'[u] = wjob'[v] => u = v
  <2>1. w \in Carrying /\ Carrying' = Carrying \ {w}
    BY <1>5, <1>t DEF Carrying, Holding, Unrecorded, HoldingPlaces, RecordingPlaces
  <2>2. \A v \in Carrying' : v \in Carrying /\ wjob'[v] = wjob[v]
    BY <1>5, <1>i, <2>1
  <2>3. InHand' = InHand \ {wjob[w]}
    BY <1>i, <1>a, <2>1, <2>2
  <2> QED
    BY <1>5, <1>i, <1>a, <2>1, <2>2, <2>3, SamePlaces
<1>6. CASE WorkerAbandon(w)
  <2>1. /\ wpc[w] = "send" /\ ctxDone /\ wpc' = [wpc EXCEPT ![w] = "exited"]
        /\ UNCHANGED <<jobs, results>> /\ \A v \in Workers \ {w} : wjob'[v] = wjob[v]
    BY <1>6, <1>t DEF WorkerAbandon, LeaveJob
  <2>2. /\ InHand' = InHand \ {wjob[w]} /\ Queued' = Queued
        /\ \A u, v \in Carrying' : wjob'[u] = wjob'[v] => u = v
    BY <1>5, <2>1
  <2>3. JobsApart'
    BY <1>r, <2>1, <2>2 DEF JobsApart, Distinct
  <2>4. JobsKnown'
    BY <1>f, <1>r, <2>1, <2>2 DEF JobsKnown
  <2> QED
    BY <1>o, <2>3, <2>4
<1>7. CASE WorkerSend(w)
  <2> DEFINE r == [check |-> wjob[w], kind |-> wout[w]]
  <2>1. /\ wpc[w] = "send" /\ wpc' = [wpc EXCEPT ![w] = "release"]
        /\ results' = Append(results, r) /\ UNCHANGED <<jobs, wjob>>
    BY <1>7 DEF WorkerSend, GoTo
  <2>2. /\ w \in Carrying /\ wjob[w] \in InHand
        /\ InHand' = InHand \ {wjob[w]} /\ Queued' = Queued
        /\ \A u, v \in Carrying' : wjob'[u] = wjob'[v] => u = v
    BY <1>5, <2>1
  <2>3. r \in JobResult /\ r.check = wjob[w]
    <3>1. wjob[w] \in Checks
      BY <2>2 DEF TypeOK, Carrying
    <3> QED
      BY <1>t, <3>1 DEF JobResult
  <2>4. wjob[w] \notin Resolved
    BY <1>a, <2>2
  <2> HIDE DEF r
  <2>5. /\ \A i, j \in 1..Len(Outcome') : Outcome'[i].check = Outcome'[j].check => i = j
        /\ Resolved' = Resolved \cup {wjob[w]}
    BY <1>f, <2>1, <2>3, <2>4, ResolvedGrows DEF JobsApart
  <2>6. JobsApart'
    BY <1>a, <2>1, <2>2, <2>4, <2>5 DEF JobsApart, Distinct
  <2>7. JobsKnown'
    BY <1>f, <2>2, <2>5 DEF JobsKnown
  <2> QED
    BY <1>o, <2>6, <2>7
<1> QED
  BY <1>2, <1>3, <1>4, <1>6, <1>7 DEF WorkerStep

(* Every job keeps one place through any step of the pool.                 *)
LEMMA PoolNextPlaced ==
    ASSUME PoolInv, Placed, [PoolNext]_poolVars
    PROVE  Placed'
<1>1. CASE UNCHANGED poolVars
  <2>1. UNCHANGED <<jobs, results, delivered, wpc, wjob, spc, sjob, tried, accepted, ctxDone>>
    BY <1>1 DEF poolVars, chanVars, submitVars, workerVars
  <2>2. JobsApart'
    BY <2>1, SamePlaces DEF Placed, JobsApart, Distinct
  <2> QED
    BY <2>1, <2>2, SamePlaces DEF Placed, JobsKnown, OffersFresh
<1> QED
  BY <1>1, LifePlaced, SubmitPlaced, WorkerPlaced DEF PoolNext

-----------------------------------------------------------------------------
(* A function that repeats no value has as many values as arguments.       *)
LEMMA ValuesCounted ==
    ASSUME NEW S, IsFiniteSet(S), NEW f, NEW T, f \in [S -> T],
           \A x, y \in S : f[x] = f[y] => x = y
    PROVE  /\ IsFiniteSet({f[x] : x \in S})
           /\ Cardinality({f[x] : x \in S}) = Cardinality(S)
<1> DEFINE V == {f[x] : x \in S}
<1>1. f \in [S -> V] /\ DOMAIN f = S /\ \A v \in V : \E x \in S : f[x] = v
  OBVIOUS
<1> HIDE DEF V
<1>2. f \in Bijection(S, V)
  BY <1>1 DEF Bijection, Injection, Surjection, IsInjective
<1>3. ExistsBijection(S, V)
  BY <1>2 DEF ExistsBijection
<1>4. IsFiniteSet(V) /\ Cardinality(V) = Cardinality(S)
  BY <1>3, FS_Bijection
<1> QED
  BY <1>4 DEF V

LEMMA UpToCounted ==
    ASSUME NEW n \in Nat
    PROVE  IsFiniteSet(1..n) /\ Cardinality(1..n) = n
<1>1. IsFiniteSet(1..n) /\ Cardinality(1..n) = IF 1 > n THEN 0 ELSE n - 1 + 1
  BY FS_Interval
<1> QED
  BY <1>1

LEMMA DistinctCounted ==
    ASSUME NEW T, NEW s \in Seq(T), Distinct(s)
    PROVE  /\ IsFiniteSet({s[i] : i \in DOMAIN s})
           /\ Cardinality({s[i] : i \in DOMAIN s}) = Len(s)
<1>1. s \in [1..Len(s) -> T] /\ DOMAIN s = 1..Len(s) /\ Len(s) \in Nat
  BY LenProperties
<1>2. IsFiniteSet(1..Len(s)) /\ Cardinality(1..Len(s)) = Len(s)
  BY <1>1, UpToCounted
<1> DEFINE D == 1..Len(s)
<1>3. \A i, j \in D : s[i] = s[j] => i = j
  BY DEF Distinct
<1>d. s \in [D -> T] /\ IsFiniteSet(D)
  BY <1>1, <1>2
<1> HIDE DEF D
<1>4. IsFiniteSet({s[i] : i \in D}) /\ Cardinality({s[i] : i \in D}) = Cardinality(D)
  BY <1>d, <1>3, ValuesCounted
<1> USE DEF D
<1> QED
  BY <1>1, <1>2, <1>4

(* The first n results name n checks.                                      *)
LEMMA ResultsDistinct ==
    ASSUME TypeOK, JobsApart, NEW n \in 0..Len(Outcome)
    PROVE  Cardinality({Outcome[i].check : i \in 1..n}) = n
<1> DEFINE D == 1..n
           f == [i \in D |-> Outcome[i].check]
<1>1. Len(Outcome) \in Nat
  BY OutcomeType
<1>2. \A i \in 1..n : i \in 1..Len(Outcome)
  BY <1>1
<1>3. \A i \in 1..n : Outcome[i].check \in Checks
  BY <1>2, OutcomeType DEF JobResult
<1>4. f \in [1..n -> Checks] /\ \A i \in 1..n : f[i] = Outcome[i].check
  BY <1>3
<1>5. \A i, j \in 1..n : f[i] = f[j] => i = j
  BY <1>2, <1>4 DEF JobsApart
<1>6. IsFiniteSet(1..n) /\ Cardinality(1..n) = n
  BY <1>1, UpToCounted
<1>7. {Outcome[i].check : i \in 1..n} = {f[i] : i \in D}
  BY <1>4
<1>8. f \in [D -> Checks] /\ IsFiniteSet(D) /\ \A i, j \in D : f[i] = f[j] => i = j
  BY <1>4, <1>5, <1>6
<1> HIDE DEF D, f
<1>9. Cardinality({f[i] : i \in D}) = Cardinality(D)
  BY <1>8, ValuesCounted
<1> QED
  BY <1>6, <1>7, <1>9 DEF D

(* In every reachable state of the pool each job has at most one place.    *)
THEOREM PlacedAlways == PoolSpec => []Placed
<1>1. PoolInv /\ Placed /\ [PoolNext]_poolVars => Placed'
  BY PoolNextPlaced
<1> QED
  BY PoolInitPlaced, PoolInductive, <1>1, PTL DEF PoolSpec

(* While the pool's context lives no accepted job is lost between Submit,  *)
(* the queue, the workers and the results channel.                         *)
THEOREM NoJobIsLost == PoolSpec => []NoJobLost
<1>1. Placed => NoJobLost
  BY DEF Placed, JobsKnown, NoJobLost
<1> QED
  BY PlacedAlways, <1>1, PTL

LEMMA PlacedOnce ==
    ASSUME TypeOK, Placed
    PROVE  OnePlacePerJob
<1>1. Cardinality(Resolved) = Len(Outcome)
  <2>1. Len(Outcome) \in 0..Len(Outcome) /\ DOMAIN Outcome = 1..Len(Outcome)
    BY OutcomeType
  <2> QED
    BY <2>1, ResultsDistinct DEF Resolved, Placed
<1>2. Cardinality(Queued) = Len(jobs)
  BY DistinctCounted DEF Queued, Placed, JobsApart, TypeOK
<1>3. Cardinality(InHand) = Cardinality(Holding \ Unrecorded)
  <2> DEFINE f == [w \in Carrying |-> wjob[w]]
  <2>1. Carrying \subseteq Workers
    BY DEF Carrying, Holding
  <2>2. IsFiniteSet(Carrying)
    BY <2>1, PoolAssumption, FS_Subset
  <2>3. f \in [Carrying -> Checks \cup {None}] /\ \A w \in Carrying : f[w] = wjob[w]
    BY <2>1 DEF TypeOK
  <2>4. \A u, v \in Carrying : f[u] = f[v] => u = v
    BY <2>3 DEF Placed, JobsApart
  <2>5. InHand = {f[w] : w \in Carrying}
    BY <2>3 DEF InHand, Carrying
  <2> HIDE DEF f
  <2>6. Cardinality({f[w] : w \in Carrying}) = Cardinality(Carrying)
    BY <2>2, <2>3, <2>4, ValuesCounted
  <2> QED
    BY <2>5, <2>6 DEF Carrying
<1> QED
  BY <1>1, <1>2, <1>3 DEF OnePlacePerJob, Placed, JobsApart

(* No job is queued, run or reported twice.                                *)
THEOREM OnePlaceAlways == PoolSpec => []OnePlacePerJob
<1>1. TypeOK /\ Placed => OnePlacePerJob
  BY PlacedOnce
<1> QED
  BY TypeCorrect, PlacedAlways, <1>1, PTL

-----------------------------------------------------------------------------
(* One Run.  Its goroutine is the only submitter, it stops the pool after  *)
(* its last Submit, and nothing but a check run in sequence ends it early. *)
RunOrder ==
    /\ EngineTypeOK
    /\ parallel \in BOOLEAN
    /\ parallel => epc \notin {"sequence", "summary"}
    /\ ~parallel => epc \notin {"submit", "collect", "stop", "stopping"}
    /\ epc # "submit" => spc[Engine] = "idle"
    /\ stopped => epc \in {"stopping", "returned"}
    /\ parallel \/ epc = "returned" => ~crashed

(* What a parallel Run has collected and reported.                         *)
ParallelReport ==
    parallel =>
        /\ collected = Len(delivered)
        /\ outcome = "complete" => collected = expectedCount
        /\ tried \subseteq {CheckList[i] : i \in 1..expectedCount}
        /\ Distinct(report)
        /\ Reported \subseteq {delivered[i].check : i \in 1..Len(delivered)}

(* What a sequential Run has reported.                                     *)
SequentialReport ==
    ~parallel =>
        /\ report = SubSeq(CheckList, 1, nextCheck - 1)
        /\ epc \in {"summary", "returned"} =>
              \/ nextCheck = expectedCount + 1
              \/ nextCheck > 1 /\ CheckList[nextCheck - 1] = Daemon

RunInv == PoolInv /\ Placed /\ RunOrder /\ ParallelReport /\ SequentialReport

LEMMA EngineSubmits == Engine \in Submitters
<1>1. \E s : Submitters = {s}
  BY EngineAssumption, PoolAssumption, FS_Singleton
<1> QED
  BY <1>1 DEF Engine

LEMMA CheckListTyped ==
    /\ expectedCount \in Nat /\ DOMAIN CheckList = 1..expectedCount
    /\ \A i \in 1..expectedCount : CheckList[i] \in Checks
    /\ Distinct(CheckList)
<1>1. CheckList \in Seq(Checks)
  BY EngineAssumption
<1>2. Len(CheckList) \in Nat /\ DOMAIN CheckList = 1..Len(CheckList)
  BY <1>1, LenProperties
<1> QED
  BY <1>1, <1>2, ElementOfSeq, EngineAssumption DEF expectedCount, Distinct

(* A step of Run is a step of the pool, or leaves the pool alone but for   *)
(* the crash of a check that panics in sequence.                           *)
LEMMA RunStepsPool ==
    ASSUME TypeOK, EngineTypeOK, [Next]_vars
    PROVE  [PoolNext]_poolVars \/ CheckPanics
<1> USE EngineSubmits
<1>1. CASE StartPool \/ Collect \/ StopPool \/ StopWait
  BY <1>1 DEF StartPool, Collect, StopPool, StopWait, PoolNext
<1>2. CASE SubmitNext
  <2>1. CheckList[nextCheck] \in Checks
    BY <1>2, CheckListTyped DEF SubmitNext, EngineTypeOK
  <2> QED
    BY <1>2, <2>1 DEF SubmitNext, PoolNext
<1>3. CASE SubmitsDone \/ CollectDone \/ CollectAborted
  BY <1>3 DEF SubmitsDone, CollectDone, CollectAborted
<1>4. CASE SequenceStep
  BY <1>4
  DEF SequenceStep, StartSequence, CheckRefused, CheckRuns, SequenceDone, Live, poolFrame,
      poolVars
<1>5. CASE Return \/ RunCancelled \/ RunDeadline
  <2>1. Live /\ ctxDone' = TRUE /\ UNCHANGED <<lifeVars, chanVars, activeJobs, countVars,
                                               submitVars, workerVars, rateVars>>
    BY <1>5 DEF Return, RunCancelled, RunDeadline
  <2>2. CASE ctxDone
    <3>1. ctxDone' = ctxDone
      BY <2>1, <2>2 DEF TypeOK
    <3> QED
      BY <2>1, <3>1 DEF poolVars, Live
  <2>3. CASE ~ctxDone
    BY <2>1, <2>3 DEF ContextDone, PoolNext
  <2> QED
    BY <2>2, <2>3
<1>6. CASE PoolStep
  BY <1>6 DEF PoolStep, PoolNext
<1>7. CASE UNCHANGED vars
  BY <1>7 DEF vars
<1> QED
  BY <1>1, <1>2, <1>3, <1>4, <1>5, <1>6, <1>7 DEF Next, RunStep

(* The pool's invariants hold under Run as well.                           *)
LEMMA RunPool ==
    ASSUME PoolInv, Placed, EngineTypeOK, [Next]_vars
    PROVE  PoolInv' /\ Placed'
<1>1. CASE [PoolNext]_poolVars
  BY <1>1, PoolNextInv, PoolNextPlaced
<1>2. CASE CheckPanics
  <2>1. crashed' = TRUE /\ UNCHANGED poolFrame
    BY <1>2 DEF CheckPanics
  <2> USE <2>1 DEF poolFrame, lifeVars, chanVars, countVars, submitVars, workerVars,
                   rateVars
  <2>2. Holding' = Holding /\ Unrecorded' = Unrecorded /\ Uncounted' = Uncounted
    BY DEF Holding, Unrecorded, Uncounted
  <2>3. TypeOK'
    BY <2>2 DEF PoolInv, TypeOK
  <2>4. PoolInv'
    BY <2>2, <2>3 DEF PoolInv, NoWorkerBeforeStart, ActiveJobsAccounting, ResultsCounted
  <2>5. JobsApart'
    BY SamePlaces DEF Placed, JobsApart, Distinct
  <2>6. JobsKnown' /\ OffersFresh'
    BY SamePlaces DEF Placed, JobsKnown, OffersFresh
  <2> QED
    BY <2>4, <2>5, <2>6 DEF Placed
<1> QED
  BY <1>1, <1>2, RunStepsPool DEF PoolInv

(* The order in which Run submits, collects and stops.                     *)
LEMMA RunKeepsOrder ==
    ASSUME TypeOK, RunOrder, [Next]_vars
    PROVE  RunOrder'
<1> USE EngineSubmits DEF RunOrder
<1>t. /\ spc \in [Submitters -> {"idle", "screen", "sending", "sent", "counted"}]
      /\ sjob \in [Submitters -> Checks \cup {None}]
      /\ expectedCount \in Nat /\ nextCheck \in Nat
      /\ \A i \in 1..expectedCount : CheckList[i] \in Checks
  BY CheckListTyped DEF TypeOK, EngineTypeOK
<1>1. ASSUME UNCHANGED <<engineVars, stopped, crashed>>,
             epc # "submit" => spc'[Engine] = "idle"
      PROVE  RunOrder'
  BY <1>1 DEF engineVars, EngineTypeOK
<1>2. CASE StartPool
  BY <1>2 DEF StartPool, Start, Live, EngineTypeOK
<1>3. CASE SubmitNext
  <2>1. /\ epc = "submit" /\ nextCheck' = nextCheck + 1 /\ nextCheck <= expectedCount
        /\ UNCHANGED <<parallel, epc, collected, report, outcome, runCtx, stopped, crashed>>
    BY <1>3 DEF SubmitNext, SubmitBegin, submitFrame, lifeVars, Live
  <2>2. nextCheck' \in 1..(expectedCount + 1)
    BY <1>t, <2>1 DEF EngineTypeOK
  <2> QED
    BY <2>1, <2>2 DEF EngineTypeOK
<1>4. CASE SubmitsDone \/ CollectDone \/ CollectAborted
  BY <1>4 DEF SubmitsDone, CollectDone, CollectAborted, poolVars, lifeVars, submitVars,
              EngineTypeOK
<1>5. CASE Collect
  <2>1. /\ epc = "collect" /\ collected < expectedCount /\ collected' = collected + 1
        /\ UNCHANGED <<parallel, epc, nextCheck, outcome, runCtx, stopped, crashed, spc>>
        /\ results # <<>>
        /\ report' = report \/ report' = Append(report, Head(results).check)
    BY <1>5 DEF Collect, Receive, lifeVars, submitVars, Live
  <2>2. collected' \in 0..expectedCount
    BY <1>t, <2>1 DEF EngineTypeOK
  <2>3. Head(results) \in JobResult
    BY <2>1, HeadTailProperties DEF TypeOK
  <2>4. Head(results).check \in Checks
    BY <2>3 DEF JobResult
  <2>5. report' \in Seq(Checks)
    BY <2>1, <2>4, AppendProperties DEF EngineTypeOK
  <2> QED
    BY <2>1, <2>2, <2>5 DEF EngineTypeOK
<1>6. CASE StopPool
  BY <1>6 DEF StopPool, StopBegin, submitVars, Live, EngineTypeOK
<1>7. CASE StopWait
  <2>1. UNCHANGED <<engineVars, stopped, crashed, spc>>
    BY <1>7 DEF StopWait, StopDone, StopForced, submitVars, Live
  <2> QED
    BY <1>1, <2>1
<1>8. CASE StartSequence \/ SequenceDone
  BY <1>8 DEF StartSequence, SequenceDone, poolFrame, lifeVars, submitVars, Live, EngineTypeOK
<1>9. CASE CheckRefused \/ \E success \in BOOLEAN : CheckRuns(success)
  <2>1. /\ epc = "sequence" /\ nextCheck <= expectedCount /\ nextCheck' = nextCheck + 1
        /\ report' = Append(report, CheckList[nextCheck])
        /\ epc' \in {"sequence", "summary"} /\ outcome' \in {outcome, "stopped"}
        /\ UNCHANGED <<parallel, collected, runCtx, stopped, crashed, spc>>
    BY <1>9 DEF CheckRefused, CheckRuns, poolFrame, lifeVars, submitVars, Live
  <2>2. nextCheck' \in 1..(expectedCount + 1)
    BY <1>t, <2>1 DEF EngineTypeOK
  <2>3. nextCheck \in 1..expectedCount
    BY <1>t, <2>1 DEF EngineTypeOK
  <2>4. report' \in Seq(Checks)
    BY <1>t, <2>1, <2>3, AppendProperties DEF EngineTypeOK
  <2> QED
    BY <2>1, <2>2, <2>4 DEF EngineTypeOK
<1>10. CASE CheckPanics
  BY <1>10 DEF CheckPanics, poolFrame, engineVars, lifeVars, submitVars, EngineTypeOK
<1>11. CASE Return
  BY <1>11 DEF Return, lifeVars, submitVars, Live, EngineTypeOK
<1>12. CASE RunCancelled \/ RunDeadline
  BY <1>12 DEF RunCancelled, RunDeadline, lifeVars, submitVars, Live, EngineTypeOK
<1>13. CASE SubmitStep(Engine) /\ UNCHANGED engineVars
  <2>1. epc = "submit" /\ ~stopped
    <3>1. spc[Engine] # "idle"
      BY <1>13 DEF SubmitStep, SubmitScreen, SubmitRefused, SubmitSend, SubmitPanic,
                   SubmitGivesUp, SubmitCount, SubmitReturn
    <3> QED
      BY <3>1
  <2>2. UNCHANGED <<stopped, crashed>>
    BY <1>13, <2>1 DEF SubmitStep, SubmitScreen, SubmitRefused, SubmitSend, SubmitPanic,
                 SubmitGivesUp, SubmitCount, SubmitReturn, submitFrame, lifeVars, Live
  <2> QED
    BY <1>1, <1>13, <2>1, <2>2
<1>14. CASE /\ (\E w \in Workers : WorkerStep(w)) \/ ContextDone \/ WindowElapses
            /\ UNCHANGED engineVars
  <2>1. UNCHANGED <<stopped, crashed, spc>>
    BY <1>14
    DEF WorkerStep, WorkerTake, WorkerExit, WorkerLimit, WorkerRun, WorkerSend,
        WorkerAbandon, WorkerRelease, WorkerRecord, ContextDone, WindowElapses,
        workerFrame, lifeVars, submitVars, Live
  <2> QED
    BY <1>1, <1>14, <2>1
<1>15. CASE UNCHANGED vars
  BY <1>1, <1>15 DEF vars, poolVars, lifeVars, submitVars
<1> HIDE DEF RunOrder
<1> QED
  BY <1>2, <1>3, <1>4, <1>5, <1>6, <1>7, <1>8, <1>9, <1>10, <1>11, <1>12, <1>13, <1>14, <1>15
  DEF Next, RunStep, PoolStep, SequenceStep

(* The next result to collect names a check that no collected result names.*)
LEMMA HeadIsNew ==
    ASSUME TypeOK, JobsApart, results # <<>>
    PROVE  /\ Head(results) \in JobResult
           /\ \A i \in 1..Len(delivered) : delivered[i].check # Head(results).check
           /\ Head(results).check \in Resolved
<1> DEFINE d == Len(delivered)
           n == Len(Outcome)
<1>1. /\ delivered \in Seq(JobResult) /\ results \in Seq(JobResult)
      /\ d \in Nat /\ Len(results) \in Nat \ {0} /\ n = d + Len(results)
      /\ Head(results) = results[1] /\ Head(results) \in JobResult
  BY OutcomeType, LenProperties, EmptySeq, HeadTailProperties DEF TypeOK
<1>2. \A i \in 1..n : Outcome[i] = IF i <= d THEN delivered[i] ELSE results[i - d]
  BY <1>1, ConcatProperties DEF Outcome
<1>3. \A i, j \in 1..n : Outcome[i].check = Outcome[j].check => i = j
  BY DEF JobsApart
<1>4. Resolved = {Outcome[i].check : i \in 1..n}
  BY OutcomeType DEF Resolved
<1> HIDE DEF d, n
<1>5. d + 1 \in 1..n /\ ~(d + 1 <= d) /\ (d + 1) - d = 1
      /\ \A i \in 1..d : i \in 1..n /\ i <= d /\ i # d + 1
  BY <1>1
<1>6. Outcome[d + 1] = Head(results) /\ \A i \in 1..d : Outcome[i] = delivered[i]
  BY <1>1, <1>2, <1>5
<1>7. \A i \in 1..d : delivered[i].check # Head(results).check
  BY <1>3, <1>5, <1>6
<1>8. Head(results).check \in Resolved
  BY <1>4, <1>5, <1>6
<1> QED
  BY <1>1, <1>7, <1>8 DEF d

(* Collecting a result: a new name in the report, or none.                 *)
LEMMA CollectReports ==
    ASSUME TypeOK, JobsApart, RunOrder, ParallelReport, Collect
    PROVE  ParallelReport'
<1> DEFINE d == Len(delivered)
           m == Len(report)
           h == Head(results)
<1>1. /\ results # <<>> /\ delivered' = Append(delivered, h) /\ collected' = collected + 1
      /\ report' = report \/ report' = Append(report, h.check)
      /\ UNCHANGED <<parallel, outcome, tried>>
      /\ epc = "collect" /\ collected < expectedCount
  BY DEF Collect, Receive, submitVars
<1>2. /\ h \in JobResult /\ \A i \in 1..d : delivered[i].check # h.check
  BY <1>1, HeadIsNew
<1>3. /\ d \in Nat /\ DOMAIN delivered = 1..d /\ Len(delivered') = d + 1
      /\ delivered'[d + 1] = h /\ \A i \in 1..d : delivered'[i] = delivered[i]
  BY <1>1, <1>2, AppendProperties, LenProperties DEF TypeOK
<1>4. /\ m \in Nat /\ DOMAIN report = 1..m /\ report \in Seq(Checks) /\ h.check \in Checks
  BY <1>2, LenProperties DEF RunOrder, EngineTypeOK, JobResult
<1>p. parallel
  BY <1>1 DEF RunOrder
<1>5. /\ collected = d /\ collected \in Nat /\ Distinct(report) /\ outcome # "complete"
      /\ Reported \subseteq {delivered[i].check : i \in 1..d}
  BY <1>1, <1>3, <1>p, CheckListTyped DEF ParallelReport
<1>6. /\ Reported = {report[i] : i \in 1..m}
  BY <1>4 DEF Reported
<1>7. report' = Append(report, h.check) =>
        /\ Len(report') = m + 1 /\ DOMAIN report' = 1..(m + 1) /\ report'[m + 1] = h.check
        /\ \A i \in 1..m : report'[i] = report[i]
  BY <1>4, AppendProperties, LenProperties
<1> HIDE DEF d, m, h
<1>8. /\ d + 1 \in 1..(d + 1) /\ \A i \in 1..d : i \in 1..(d + 1)
      /\ \A i \in 1..(m + 1) : i \in 1..m \/ i = m + 1
  BY <1>3, <1>4
<1>9. {delivered'[i].check : i \in 1..(d + 1)}
        = {delivered[i].check : i \in 1..d} \cup {h.check}
  <2>1. \A i \in 1..(d + 1) : i \in 1..d \/ i = d + 1
    BY <1>3
  <2> QED
    BY <1>3, <1>8, <2>1
<1>10. Reported' \subseteq Reported \cup {h.check} /\ Distinct(report')
  <2>1. CASE report' = report
    BY <2>1, <1>5 DEF Reported, Distinct
  <2>2. CASE report' = Append(report, h.check)
    <3>1. \A i \in 1..m : report[i] # h.check
      BY <1>2, <1>5, <1>6 DEF d
    <3>2. Reported' = {report'[i] : i \in 1..(m + 1)}
      BY <1>7, <2>2 DEF Reported
    <3>3. Reported' \subseteq Reported \cup {h.check}
      BY <1>6, <1>7, <1>8, <2>2, <3>2
    <3>4. Distinct(report')
      <4>1. \A i, j \in 1..m : report[i] = report[j] => i = j
        BY <1>5 DEF Distinct, m
      <4>2. \A i, j \in 1..(m + 1) : report'[i] = report'[j] => i = j
        BY <1>7, <1>8, <2>2, <3>1, <4>1
      <4> QED
        BY <1>7, <2>2, <4>2 DEF Distinct
    <3> QED
      BY <3>3, <3>4
  <2> QED
    BY <1>1, <2>1, <2>2
<1>11. Reported' \subseteq {delivered'[i].check : i \in 1..Len(delivered')}
  BY <1>3, <1>5, <1>9, <1>10
<1>12. collected' = Len(delivered') /\ outcome' # "complete"
  BY <1>1, <1>3, <1>5
<1>13. tried' \subseteq {CheckList[i] : i \in 1..expectedCount}
  BY <1>1, <1>p DEF ParallelReport
<1> QED
  BY <1>10, <1>11, <1>12, <1>13 DEF ParallelReport

LEMMA RunReportsParallel ==
    ASSUME TypeOK, JobsApart, RunOrder, ParallelReport, [Next]_vars
    PROVE  ParallelReport'
<1>1. ASSUME UNCHANGED <<parallel, collected, report, delivered, tried>>,
             outcome' = "complete" => outcome = "complete" \/ collected = expectedCount
      PROVE  ParallelReport'
  <2>1. Reported' = Reported
    BY <1>1 DEF Reported
  <2> QED
    BY <1>1, <2>1 DEF ParallelReport, Distinct
<1>2. CASE Collect
  BY <1>2, CollectReports
<1>3. CASE SubmitNext
  <2>1. /\ UNCHANGED <<parallel, collected, report, delivered, outcome>>
        /\ tried' = tried \cup {CheckList[nextCheck]} /\ nextCheck <= expectedCount
    BY <1>3 DEF SubmitNext, SubmitBegin, submitFrame
  <2>2. nextCheck \in 1..expectedCount
    BY <2>1, CheckListTyped DEF RunOrder, EngineTypeOK
  <2>3. Reported' = Reported
    BY <2>1 DEF Reported
  <2> QED
    BY <2>1, <2>2, <2>3 DEF ParallelReport, Distinct
<1>4. CASE StartPool \/ SubmitsDone \/ CollectDone \/ CollectAborted \/ StopPool \/ StopWait
  BY <1>1, <1>4
  DEF StartPool, SubmitsDone, CollectDone, CollectAborted, StopPool, StopWait, Start,
      StopBegin, StopDone, StopForced, engineVars, poolVars, chanVars, submitVars
<1>5. CASE SequenceStep
  <2>1. ~parallel'
    BY <1>5 DEF SequenceStep, StartSequence, CheckRefused, CheckRuns, CheckPanics,
                SequenceDone, engineVars, RunOrder
  <2> QED
    BY <2>1 DEF ParallelReport
<1>6. CASE Return \/ RunCancelled \/ RunDeadline
  BY <1>1, <1>6 DEF Return, RunCancelled, RunDeadline, chanVars, submitVars
<1>7. CASE PoolStep
  <2>1. UNCHANGED engineVars
    BY <1>7 DEF PoolStep
  <2>2. UNCHANGED <<delivered, tried>>
    BY <1>7
    DEF PoolStep, SubmitStep, SubmitScreen, SubmitRefused, SubmitSend, SubmitPanic,
        SubmitGivesUp, SubmitCount, SubmitReturn, submitFrame, WorkerStep, WorkerTake,
        WorkerExit, WorkerLimit, WorkerRun, WorkerSend, WorkerAbandon, WorkerRelease,
        WorkerRecord, workerFrame, ContextDone, WindowElapses, chanVars, submitVars
  <2> QED
    BY <1>1, <2>1, <2>2 DEF engineVars
<1>8. CASE UNCHANGED vars
  BY <1>1, <1>8 DEF vars, engineVars, poolVars, chanVars, submitVars
<1> QED
  BY <1>2, <1>3, <1>4, <1>5, <1>6, <1>7, <1>8 DEF Next, RunStep

(* The report of the sequence grows with the list of checks.               *)
LEMMA PrefixGrows ==
    ASSUME NEW n \in 1..expectedCount
    PROVE  SubSeq(CheckList, 1, n) = Append(SubSeq(CheckList, 1, n - 1), CheckList[n])
<1> DEFINE s == SubSeq(CheckList, 1, n - 1)
           e == CheckList[n]
           r == Append(s, e)
           t == SubSeq(CheckList, 1, n)
<1>1. /\ n \in Nat /\ n - 1 \in Int /\ e \in Checks
      /\ \A i \in 1..n : CheckList[i] \in Checks
      /\ \A i \in 1..(n - 1) : CheckList[i] \in Checks
  BY CheckListTyped
<1>2. /\ s \in Seq(Checks) /\ Len(s) = n - 1 /\ \A i \in 1..(n - 1) : s[i] = CheckList[i]
  BY <1>1, SubSeqProperties
<1>3. /\ t \in Seq(Checks) /\ Len(t) = n /\ \A i \in 1..n : t[i] = CheckList[i]
  BY <1>1, SubSeqProperties
<1>4. /\ r \in Seq(Checks) /\ Len(r) = n /\ r[n] = CheckList[n]
      /\ \A i \in 1..(n - 1) : r[i] = s[i]
  <2> HIDE DEF s, e
  <2>1. /\ Append(s, e) \in Seq(Checks) /\ Len(Append(s, e)) = Len(s) + 1
        /\ \A i \in 1..Len(s) : Append(s, e)[i] = s[i]
        /\ Append(s, e)[Len(s) + 1] = e
    BY <1>1, <1>2, AppendProperties
  <2> QED
    BY <1>1, <1>2, <2>1 DEF e
<1>5. \A i \in 1..n : r[i] = t[i]
  <2>1. \A i \in 1..n : i = n \/ i \in 1..(n - 1)
    BY <1>1
  <2> HIDE DEF r, s, t, e
  <2> QED
    BY <1>2, <1>3, <1>4, <2>1
<1> HIDE DEF r, t
<1>6. r = t
  BY <1>3, <1>4, <1>5, SeqEqual
<1> QED
  BY <1>6 DEF r, t

LEMMA RunReportsSequence ==
    ASSUME RunOrder, SequentialReport, [Next]_vars
    PROVE  SequentialReport'
<1>t. nextCheck \in Nat /\ nextCheck >= 1 /\ expectedCount \in Nat
      /\ nextCheck <= expectedCount + 1
  BY CheckListTyped DEF RunOrder, EngineTypeOK
<1>1. ASSUME UNCHANGED <<parallel, report, nextCheck>>,
             epc' \in {"summary", "returned"} =>
                 epc \in {"summary", "returned"} \/ nextCheck > expectedCount
      PROVE  SequentialReport'
  BY <1>1, <1>t DEF SequentialReport
<1>2. CASE CheckRefused \/ \E success \in BOOLEAN : CheckRuns(success)
  <2>1. /\ epc = "sequence" /\ nextCheck <= expectedCount /\ nextCheck' = nextCheck + 1
        /\ report' = Append(report, CheckList[nextCheck]) /\ UNCHANGED parallel
        /\ epc' = "sequence" \/ CheckList[nextCheck] = Daemon
    BY <1>2 DEF CheckRefused, CheckRuns, shouldStopOnFailure
  <2>2. nextCheck' - 1 = nextCheck /\ nextCheck' > 1 /\ nextCheck \in 1..expectedCount
    BY <1>t, <2>1
  <2>3. ~parallel => report' = SubSeq(CheckList, 1, nextCheck' - 1)
    BY <2>1, <2>2, PrefixGrows DEF SequentialReport
  <2>4. epc' \in {"summary", "returned"} => CheckList[nextCheck' - 1] = Daemon
    BY <2>1, <2>2
  <2> QED
    BY <2>1, <2>2, <2>3, <2>4 DEF SequentialReport
<1>3. CASE StartSequence \/ SequenceDone \/ CheckPanics
  BY <1>1, <1>3 DEF StartSequence, SequenceDone, CheckPanics, engineVars
<1>4. CASE \/ StartPool \/ SubmitNext \/ SubmitsDone \/ Collect \/ CollectDone
           \/ CollectAborted \/ StopPool
  <2>1. parallel'
    BY <1>4 DEF StartPool, SubmitNext, SubmitsDone, Collect, CollectDone, CollectAborted,
                StopPool, RunOrder
  <2> QED
    BY <2>1 DEF SequentialReport
<1>5. CASE Return
  <2>1. UNCHANGED <<parallel, report, nextCheck>> /\ (parallel \/ epc = "summary")
    BY <1>5 DEF Return, RunOrder
  <2>2. CASE parallel
    BY <2>1, <2>2 DEF SequentialReport
  <2> QED
    BY <1>1, <2>1, <2>2
<1>6. CASE StopWait \/ PoolStep \/ RunCancelled \/ RunDeadline \/ UNCHANGED vars
  <2>1. UNCHANGED <<parallel, report, nextCheck, epc>>
    BY <1>6 DEF StopWait, PoolStep, RunCancelled, RunDeadline, vars, engineVars
  <2> QED
    BY <1>1, <2>1
<1> QED
  BY <1>2, <1>3, <1>4, <1>5, <1>6 DEF Next, RunStep, SequenceStep

LEMMA InitRunInv == Init => RunInv
<1> SUFFICES ASSUME Init PROVE RunInv
  OBVIOUS
<1>1. PoolInv /\ Placed
  BY PoolInitInv, PoolInitPlaced DEF Init
<1>2. /\ epc = "new" /\ nextCheck = 1 /\ collected = 0 /\ report = <<>>
      /\ outcome = "none" /\ runCtx = "live" /\ parallel \in BOOLEAN
      /\ delivered = <<>> /\ tried = {} /\ stopped = FALSE /\ crashed = FALSE
  BY DEF Init, PoolInit
<1>3. spc[Engine] = "idle"
  BY EngineSubmits DEF Init, PoolInit
<1>4. <<>> \in Seq(Checks) /\ Len(<<>>) = 0 /\ DOMAIN <<>> = {}
  BY EmptySeq
<1>5. EngineTypeOK
  BY <1>2, <1>4, CheckListTyped DEF EngineTypeOK
<1>6. RunOrder
  BY <1>2, <1>3, <1>5 DEF RunOrder
<1>7. ParallelReport
  <2>1. Reported = {} /\ Distinct(report)
    BY <1>2, <1>4 DEF Reported, Distinct
  <2> QED
    BY <1>2, <1>4, <2>1 DEF ParallelReport
<1>8. SequentialReport
  <2>1. SubSeq(CheckList, 1, 0) = <<>>
    BY SubSeqEmpty
  <2> QED
    BY <1>2, <2>1 DEF SequentialReport
<1> QED
  BY <1>1, <1>6, <1>7, <1>8 DEF RunInv

(* The inductive invariant of Run.                                         *)
THEOREM RunInductive == Spec => []RunInv
<1>1. RunInv /\ [Next]_vars => RunInv'
  <2> SUFFICES ASSUME RunInv, [Next]_vars PROVE RunInv'
    OBVIOUS
  <2>1. PoolInv' /\ Placed'
    BY RunPool DEF RunInv, RunOrder
  <2>2. RunOrder'
    BY RunKeepsOrder DEF RunInv, PoolInv
  <2>3. ParallelReport'
    BY RunReportsParallel DEF RunInv, PoolInv, Placed
  <2>4. SequentialReport'
    BY RunReportsSequence DEF RunInv
  <2> QED
    BY <2>1, <2>2, <2>3, <2>4 DEF RunInv
<1> QED
  BY InitRunInv, <1>1, PTL DEF Spec

(* A parallel Run never sends on the job channel its deferred Stop closed, *)
(* and no panic of a check gets past the worker: it never crashes.         *)
THEOREM ParallelNeverPanics == Spec => []NoPanic
<1>1. RunInv => NoPanic
  BY DEF RunInv, RunOrder, NoPanic
<1> QED
  BY RunInductive, <1>1, PTL

(* The checks of the collected results.                                    *)
LEMMA CollectedResolved ==
    ASSUME TypeOK
    PROVE  LET Collected == {delivered[i].check : i \in 1..Len(delivered)}
           IN  /\ Collected = {Outcome[i].check : i \in 1..Len(delivered)}
               /\ Len(delivered) \in 0..Len(Outcome)
               /\ Collected \subseteq Resolved
<1> DEFINE d == Len(delivered)
           n == Len(Outcome)
<1>1. /\ delivered \in Seq(JobResult) /\ results \in Seq(JobResult)
      /\ d \in Nat /\ Len(results) \in Nat /\ n = d + Len(results)
  BY OutcomeType, LenProperties DEF TypeOK
<1>2. \A i \in 1..n : Outcome[i] = IF i <= d THEN delivered[i] ELSE results[i - d]
  BY <1>1, ConcatProperties DEF Outcome
<1>3. Resolved = {Outcome[i].check : i \in 1..n}
  BY OutcomeType DEF Resolved
<1> HIDE DEF d, n
<1>4. d \in 0..n /\ \A i \in 1..d : i \in 1..n /\ i <= d
  BY <1>1
<1>5. \A i \in 1..d : Outcome[i] = delivered[i]
  BY <1>2, <1>4
<1> QED
  BY <1>3, <1>4, <1>5 DEF d, n

(* No check is reported twice, in either mode, and a parallel Run reports  *)
(* only checks it submitted and a worker answered.                         *)
THEOREM ReportAlwaysFaithful == Spec => []ReportFaithful
<1>1. RunInv => ReportFaithful
  <2> SUFFICES ASSUME RunInv PROVE ReportFaithful
    OBVIOUS
  <2>t. /\ TypeOK /\ JobsApart /\ JobsKnown /\ EngineTypeOK /\ parallel \in BOOLEAN
        /\ report \in Seq(Checks) /\ nextCheck \in 1..(expectedCount + 1)
    BY DEF RunInv, PoolInv, Placed, RunOrder, EngineTypeOK
  <2>1. Distinct(report)
    <3>1. CASE parallel
      BY <3>1 DEF RunInv, ParallelReport
    <3>2. CASE ~parallel
      <4> DEFINE m == nextCheck - 1
                 s == SubSeq(CheckList, 1, m)
      <4>1. /\ m \in Nat /\ \A i \in 1..m : i \in 1..expectedCount
            /\ \A i \in 1..m : CheckList[i] \in Checks
        BY <2>t, CheckListTyped
      <4>2. report = s
        BY <3>2 DEF RunInv, SequentialReport
      <4> HIDE DEF m
      <4>3. Len(s) = m /\ \A i \in 1..m : s[i] = CheckList[i]
        BY <4>1, SubSeqProperties
      <4>4. \A i, j \in 1..expectedCount : CheckList[i] = CheckList[j] => i = j
        BY CheckListTyped DEF Distinct, expectedCount
      <4> HIDE DEF s
      <4> QED
        BY <4>1, <4>2, <4>3, <4>4 DEF Distinct
    <3> QED
      BY <3>1, <3>2
  <2>2. Cardinality(Reported) = Len(report)
    BY <2>t, <2>1, DistinctCounted DEF Reported
  <2>3. ASSUME parallel
        PROVE  /\ Reported \subseteq accepted \cap Resolved
               /\ Reported \cap (Queued \cup InHand) = {}
    <3>1. Reported \subseteq Resolved
      BY <2>3, <2>t, CollectedResolved DEF RunInv, ParallelReport
    <3> QED
      BY <3>1, <2>t DEF JobsKnown, JobsApart
  <2> QED
    BY <2>t, <2>2, <2>3 DEF ReportFaithful
<1> QED
  BY RunInductive, <1>1, PTL

(* A sequential Run reports the checks it came to in their order, and it   *)
(* came to all of them unless the daemon check was the last.               *)
THEOREM SequenceAlwaysReported == Spec => []SequenceReported
<1>1. RunInv => SequenceReported
  <2> SUFFICES ASSUME RunInv, ~parallel
               PROVE  /\ report = SubSeq(CheckList, 1, nextCheck - 1)
                      /\ epc = "returned" =>
                            /\ ~crashed
                            /\ \/ Len(report) = expectedCount
                               \/ report[Len(report)] = Daemon
    BY DEF SequenceReported
  <2> DEFINE m == nextCheck - 1
             s == SubSeq(CheckList, 1, m)
  <2>1. /\ report = s
        /\ epc = "returned" => ~crashed
        /\ epc = "returned" =>
              nextCheck = expectedCount + 1 \/ (nextCheck > 1 /\ CheckList[m] = Daemon)
    BY DEF RunInv, SequentialReport, RunOrder
  <2>2. /\ nextCheck \in Nat /\ expectedCount \in Nat /\ m \in Nat
        /\ \A i \in 1..m : CheckList[i] \in Checks
    BY CheckListTyped DEF RunInv, RunOrder, EngineTypeOK
  <2>3. nextCheck = expectedCount + 1 => m = expectedCount
    BY <2>2
  <2>4. nextCheck > 1 => m \in 1..m
    BY <2>2
  <2> HIDE DEF m
  <2>5. Len(s) = m /\ \A i \in 1..m : s[i] = CheckList[i]
    BY <2>2, SubSeqProperties
  <2>6. epc = "returned" => Len(report) = expectedCount \/ report[Len(report)] = Daemon
    <3> HIDE DEF s
    <3> QED
      BY <2>1, <2>3, <2>4, <2>5
  <2> QED
    BY <2>1, <2>6 DEF m
<1> QED
  BY RunInductive, <1>1, PTL

(* When collection ends by count, the results collected are one for each   *)
(* check, so every check was accepted and no job or result is left.        *)
THEOREM CompletionLeavesNothing == Spec => []CompleteLeavesNothing
<1>1. RunInv => CompleteLeavesNothing
  <2> SUFFICES ASSUME RunInv, parallel, outcome = "complete"
               PROVE  /\ accepted = {CheckList[i] : i \in DOMAIN CheckList}
                      /\ jobs = <<>> /\ results = <<>>
                      /\ Holding \subseteq Unrecorded
    BY DEF CompleteLeavesNothing
  <2> DEFINE N == expectedCount
             Listed == {CheckList[i] : i \in DOMAIN CheckList}
             Collected == {delivered[i].check : i \in 1..Len(delivered)}
  <2>t. TypeOK /\ JobsApart /\ JobsKnown
    BY DEF RunInv, PoolInv, Placed
  <2>1. Len(delivered) = N /\ tried \subseteq Listed
    BY CheckListTyped DEF RunInv, ParallelReport
  <2>2. Cardinality(Collected) = N /\ Collected \subseteq Resolved
    <3>1. /\ Collected = {Outcome[i].check : i \in 1..N} /\ N \in 0..Len(Outcome)
          /\ Collected \subseteq Resolved
      BY <2>t, <2>1, CollectedResolved
    <3> HIDE DEF N, Collected
    <3>2. Cardinality({Outcome[i].check : i \in 1..N}) = N
      BY <2>t, <3>1, ResultsDistinct
    <3> QED
      BY <3>1, <3>2
  <2>3. IsFiniteSet(Listed) /\ Cardinality(Listed) = N
    BY CheckListTyped, EngineAssumption, DistinctCounted DEF expectedCount
  <2>4. Resolved \subseteq accepted /\ accepted \subseteq tried
    BY <2>t DEF JobsKnown
  <2> HIDE DEF Listed, Collected, N
  <2>5. Collected = Listed
    BY <2>1, <2>2, <2>3, <2>4, FS_Subset
  <2>6. accepted = Listed /\ accepted = Collected /\ accepted = Resolved
    BY <2>1, <2>2, <2>4, <2>5
  <2>7. Queued = {} /\ InHand = {}
    BY <2>t, <2>6 DEF JobsKnown, JobsApart
  <2>8. jobs = <<>>
    <3>1. jobs \in Seq(Checks)
      BY <2>t DEF TypeOK
    <3>2. ASSUME jobs # <<>> PROVE FALSE
      <4>1. 1 \in DOMAIN jobs
        BY <3>1, <3>2, EmptySeq, LenProperties
      <4> QED
        BY <4>1, <2>7 DEF Queued
    <3> QED
      BY <3>2
  <2>9. results = <<>>
    <3> SUFFICES ASSUME results # <<>> PROVE FALSE
      OBVIOUS
    <3>1. Head(results).check \notin Collected
      BY <2>t, HeadIsNew DEF Collected
    <3>2. Head(results).check \in Resolved
      BY <2>t, HeadIsNew
    <3> QED
      BY <2>6, <3>1, <3>2
  <2>10. Holding \subseteq Unrecorded
    BY <2>7 DEF InHand
  <2> QED
    BY <2>6, <2>8, <2>9, <2>10 DEF Listed
<1> QED
  BY RunInductive, <1>1, PTL
=============================================================================
