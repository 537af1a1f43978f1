----------------------------- MODULE WorkerPool -----------------------------
(***************************************************************************)
(* SecureWorkerPool of internal/diagnostics/worker_pool.go: a bounded job  *)
(* channel, worker goroutines, a results channel, the atomic job counters, *)
(* and the error-rate monitor that gates Submit.                           *)
(*                                                                         *)
(* A job is named by its check; each check is submitted at most once, as   *)
(* DiagnosticEngine does.  Steps between two accesses to state that other  *)
(* goroutines touch are separate actions.  A send on the closed job        *)
(* channel is a Go panic that nothing recovers: crashed ends the behaviour.*)
(***************************************************************************)
EXTENDS Integers, Sequences, FiniteSets

CONSTANTS
    Workers,        \* worker goroutines (p.workers)
    Submitters,     \* goroutines that call Submit
    Checks,         \* the diagnostic checks
    None,           \* no check
    QueueCap,       \* capacity of p.jobs (MAX_QUEUE_SIZE)
    ResultCap,      \* capacity of p.results (MAX_QUEUE_SIZE)
    MinSamples      \* outcomes before the error rate counts (10 in the code)

ASSUME PoolAssumption ==
    /\ IsFiniteSet(Workers) /\ IsFiniteSet(Submitters) /\ IsFiniteSet(Checks)
    /\ None \notin Checks
    /\ QueueCap \in Nat \ {0} /\ ResultCap \in Nat \ {0} /\ MinSamples \in Nat

VARIABLES
    started,        \* p.started
    stopped,        \* p.stopped, and the job channel is closed
    stopReturned,   \* Stop has returned
    ctxDone,        \* p.ctx is cancelled or past its deadline
    jobs,           \* p.jobs
    results,        \* p.results
    delivered,      \* results the consumer has received
    activeJobs, completedJobs, failedJobs,
    spc, sjob,      \* each submitter's place in Submit, and its check
    tried,          \* checks Submit was called with
    accepted,       \* checks whose send on p.jobs succeeded
    cancelled,      \* checks whose job context Submit's deferred cancel ended
    wpc, wjob, wout,\* each worker's place, its job and the job's outcome
    errorCount, successCount, circuitOpen, windowElapsed,  \* p.errorRate
    crashed         \* an unrecovered panic ended the process

lifeVars   == <<started, stopped, stopReturned>>
chanVars   == <<jobs, results, delivered>>
countVars  == <<completedJobs, failedJobs>>
submitVars == <<spc, sjob, tried, accepted, cancelled>>
workerVars == <<wpc, wjob, wout>>
rateVars   == <<errorCount, successCount, circuitOpen, windowElapsed>>
poolVars   == <<lifeVars, ctxDone, chanVars, activeJobs, countVars, submitVars,
                workerVars, rateVars, crashed>>

Outcomes == {"ok", "err", "ratelimit"}
JobResult == [check : Checks, kind : Outcomes]

(* The job context is a child of p.ctx that Submit cancels on return.      *)
JobContextDone(k) == ctxDone \/ k \in cancelled

HoldingPlaces == {"limit", "waiting", "run", "send", "release"}
RecordingPlaces == {"release", "record"}

Uncounted == {s \in Submitters : spc[s] = "sent"}
Holding == {w \in Workers : wpc[w] \in HoldingPlaces}
Unrecorded == {w \in Workers : wpc[w] \in RecordingPlaces}
Exited(w) == wpc[w] \in {"unstarted", "exited"}

-----------------------------------------------------------------------------
(* The process runs on; the only action that is not Live is SubmitPanic.   *)
Live == ~crashed /\ UNCHANGED crashed

(* NewSecureWorkerPool.                                                    *)
PoolInit ==
    /\ started = FALSE /\ stopped = FALSE /\ stopReturned = FALSE
    /\ ctxDone = FALSE
    /\ jobs = <<>> /\ results = <<>> /\ delivered = <<>>
    /\ activeJobs = 0 /\ completedJobs = 0 /\ failedJobs = 0
    /\ spc = [s \in Submitters |-> "idle"]
    /\ sjob = [s \in Submitters |-> None]
    /\ tried = {} /\ accepted = {} /\ cancelled = {}
    /\ wpc = [w \in Workers |-> "unstarted"]
    /\ wjob = [w \in Workers |-> None]
    /\ wout = [w \in Workers |-> "ok"]
    /\ errorCount = 0 /\ successCount = 0
    /\ circuitOpen = FALSE /\ windowElapsed = FALSE
    /\ crashed = FALSE

Start ==
    /\ Live
    /\ ~started
    /\ started' = TRUE
    /\ wpc' = [w \in Workers |-> "idle"]
    /\ UNCHANGED <<stopped, stopReturned, ctxDone, chanVars, activeJobs,
                   countVars, submitVars, wjob, wout, rateVars>>

(* Stop wins the compare-and-swap and closes the job channel.              *)
StopBegin ==
    /\ Live
    /\ ~stopped
    /\ stopped' = TRUE
    /\ UNCHANGED <<started, stopReturned, ctxDone, chanVars, activeJobs,
                   countVars, submitVars, workerVars, rateVars>>

(* wg.Wait returned: every started worker is gone.                         *)
StopDone ==
    /\ Live
    /\ stopped /\ ~stopReturned
    /\ \A w \in Workers : Exited(w)
    /\ stopReturned' = TRUE
    /\ UNCHANGED <<started, stopped, ctxDone, chanVars, activeJobs, countVars,
                   submitVars, workerVars, rateVars>>

(* The 10 second timer fired first: the pool context is cancelled and the  *)
(* workers are left to find out by themselves.                             *)
StopForced ==
    /\ Live
    /\ stopped /\ ~stopReturned
    /\ \E w \in Workers : ~Exited(w)
    /\ stopReturned' = TRUE
    /\ ctxDone' = TRUE
    /\ UNCHANGED <<started, stopped, chanVars, activeJobs, countVars,
                   submitVars, workerVars, rateVars>>

(* The parent context is cancelled, or MAX_TOTAL_TIMEOUT has passed.       *)
ContextDone ==
    /\ Live
    /\ ~ctxDone
    /\ ctxDone' = TRUE
    /\ UNCHANGED <<lifeVars, chanVars, activeJobs, countVars, submitVars,
                   workerVars, rateVars>>

-----------------------------------------------------------------------------
(* Submit.  Each step below reads or writes shared state once.             *)
submitFrame == <<lifeVars, ctxDone, results, delivered, countVars, workerVars,
                 rateVars>>

LeaveSubmit(s) ==
    /\ spc' = [spc EXCEPT ![s] = "idle"]
    /\ sjob' = [sjob EXCEPT ![s] = None]

SubmitBegin(s, k) ==
    /\ Live
    /\ spc[s] = "idle"
    /\ k \notin tried
    /\ tried' = tried \cup {k}
    /\ IF started /\ ~stopped
       THEN /\ spc' = [spc EXCEPT ![s] = "screen"]
            /\ sjob' = [sjob EXCEPT ![s] = k]
       ELSE UNCHANGED <<spc, sjob>>
    /\ UNCHANGED <<submitFrame, jobs, activeJobs, accepted, cancelled>>

(* Seeded fault: the circuit is not consulted.                             *)
FaultScreenIgnoresCircuit(s) ==
    /\ Live
    /\ spc[s] = "screen"
    /\ spc' = [spc EXCEPT ![s] = "sending"] /\ UNCHANGED sjob
    /\ UNCHANGED <<submitFrame, jobs, activeJobs, tried, accepted, cancelled>>

SubmitScreen(s) ==
    /\ Live
    /\ spc[s] = "screen"
    /\ IF circuitOpen
       THEN LeaveSubmit(s)
       ELSE spc' = [spc EXCEPT ![s] = "sending"] /\ UNCHANGED sjob
    /\ UNCHANGED <<submitFrame, jobs, activeJobs, tried, accepted, cancelled>>

(* The security validator rejects the check, or memory is over its limit.  *)
SubmitRefused(s) ==
    /\ Live
    /\ spc[s] = "screen"
    /\ ~circuitOpen
    /\ LeaveSubmit(s)
    /\ UNCHANGED <<submitFrame, jobs, activeJobs, tried, accepted, cancelled>>

SubmitSend(s) ==
    /\ Live
    /\ spc[s] = "sending"
    /\ ~stopped
    /\ Len(jobs) < QueueCap
    /\ jobs' = Append(jobs, sjob[s])
    /\ accepted' = accepted \cup {sjob[s]}
    /\ spc' = [spc EXCEPT ![s] = "sent"]
    /\ UNCHANGED <<submitFrame, activeJobs, sjob, tried, cancelled>>

(* "send on closed channel".                                               *)
SubmitPanic(s) ==
    /\ ~crashed
    /\ spc[s] = "sending"
    /\ stopped
    /\ crashed' = TRUE
    /\ UNCHANGED <<submitFrame, jobs, activeJobs, submitVars>>

(* The 1 second timer can only win while the send blocks; p.ctx.Done() can *)
(* win whenever it is ready.                                               *)
SubmitGivesUp(s) ==
    /\ Live
    /\ spc[s] = "sending"
    /\ ctxDone \/ (~stopped /\ Len(jobs) = QueueCap)
    /\ LeaveSubmit(s)
    /\ UNCHANGED <<submitFrame, jobs, activeJobs, tried, accepted, cancelled>>

SubmitCount(s) ==
    /\ Live
    /\ spc[s] = "sent"
    /\ activeJobs' = activeJobs + 1
    /\ spc' = [spc EXCEPT ![s] = "counted"]
    /\ UNCHANGED <<submitFrame, jobs, sjob, tried, accepted, cancelled>>

(* Submit returns nil and its deferred cancel ends the job's context.      *)
SubmitReturn(s) ==
    /\ Live
    /\ spc[s] = "counted"
    /\ cancelled' = cancelled \cup {sjob[s]}
    /\ LeaveSubmit(s)
    /\ UNCHANGED <<submitFrame, jobs, activeJobs, tried, accepted>>

SubmitStep(s) ==
    \/ SubmitScreen(s) \/ SubmitRefused(s) \/ SubmitSend(s) \/ SubmitPanic(s)
    \/ SubmitGivesUp(s) \/ SubmitCount(s) \/ SubmitReturn(s)

-----------------------------------------------------------------------------
(* worker.                                                                 *)
workerFrame == <<lifeVars, ctxDone, delivered, submitVars>>

LeaveJob(w, place) ==
    /\ wpc' = [wpc EXCEPT ![w] = place]
    /\ wjob' = [wjob EXCEPT ![w] = None]
    /\ wout' = [wout EXCEPT ![w] = "ok"]

(* Seeded fault: with p.ctx done the job is put back and the loop goes on. *)
FaultPutsJobBack(w) ==
    /\ Live
    /\ wpc[w] = "idle"
    /\ jobs # <<>>
    /\ IF ctxDone
       THEN jobs' = Append(Tail(jobs), Head(jobs)) /\ UNCHANGED <<wpc, wjob>>
       ELSE /\ jobs' = Tail(jobs)
            /\ wpc' = [wpc EXCEPT ![w] = "limit"]
            /\ wjob' = [wjob EXCEPT ![w] = Head(jobs)]
    /\ UNCHANGED <<wout, activeJobs, workerFrame, results, countVars, rateVars>>

(* Receive a job; with p.ctx done the worker drops it and returns.         *)
WorkerTake(w) ==
    /\ Live
    /\ wpc[w] = "idle"
    /\ jobs # <<>>
    /\ jobs' = Tail(jobs)
    /\ IF ctxDone
       THEN LeaveJob(w, "exited") /\ activeJobs' = activeJobs - 1
       ELSE /\ wpc' = [wpc EXCEPT ![w] = "limit"]
            /\ wjob' = [wjob EXCEPT ![w] = Head(jobs)]
            /\ UNCHANGED <<wout, activeJobs>>
    /\ UNCHANGED <<workerFrame, results, countVars, rateVars>>

(* The job channel is closed and drained.                                  *)
WorkerExit(w) ==
    /\ Live
    /\ wpc[w] = "idle"
    /\ jobs = <<>> /\ stopped
    /\ LeaveJob(w, "exited")
    /\ UNCHANGED <<workerFrame, jobs, results, activeJobs, countVars, rateVars>>

GoTo(w, place) == wpc' = [wpc EXCEPT ![w] = place] /\ UNCHANGED <<wjob, wout>>

WithOutcome(w, o) ==
    /\ wpc' = [wpc EXCEPT ![w] = "send"]
    /\ wout' = [wout EXCEPT ![w] = o]
    /\ UNCHANGED wjob

(* rate.Limiter.Wait(job.Context): fails at once when the context is done, *)
(* or when its deadline would come before the next token; otherwise a      *)
(* token is free, or the worker waits for a token or for the end of the    *)
(* context, whichever the runtime picks when both are there.               *)
LimiterWait(w) ==
    \/ /\ wpc[w] = "limit"
       /\ \/ WithOutcome(w, "ratelimit")
          \/ ~JobContextDone(wjob[w]) /\ (GoTo(w, "run") \/ GoTo(w, "waiting"))
    \/ /\ wpc[w] = "waiting"
       /\ \/ GoTo(w, "run")
          \/ JobContextDone(wjob[w]) /\ WithOutcome(w, "ratelimit")

WorkerLimit(w) ==
    /\ Live
    /\ LimiterWait(w)
    /\ UNCHANGED <<workerFrame, jobs, results, activeJobs, countVars, rateVars>>

(* executeJob: the check succeeds, or fails or panics (both an error).     *)
WorkerRun(w) ==
    /\ Live
    /\ wpc[w] = "run"
    /\ \E o \in {"ok", "err"} : WithOutcome(w, o)
    /\ UNCHANGED <<workerFrame, jobs, results, activeJobs, countVars, rateVars>>

(* Seeded fault: a result that finds the channel full is dropped.          *)
FaultDropsWhenFull(w) ==
    /\ Live
    /\ wpc[w] = "send"
    /\ IF Len(results) < ResultCap
       THEN results' = Append(results, [check |-> wjob[w], kind |-> wout[w]])
       ELSE UNCHANGED results
    /\ GoTo(w, "release")
    /\ UNCHANGED <<workerFrame, jobs, activeJobs, countVars, rateVars>>

(* Seeded fault: a failed job is reported and queued again for a retry.    *)
FaultRequeues(w) ==
    /\ Live
    /\ wpc[w] = "send"
    /\ Len(results) < ResultCap
    /\ results' = Append(results, [check |-> wjob[w], kind |-> wout[w]])
    /\ jobs' = IF wout[w] # "ok" /\ Len(jobs) < QueueCap
               THEN Append(jobs, wjob[w]) ELSE jobs
    /\ GoTo(w, "release")
    /\ UNCHANGED <<workerFrame, activeJobs, countVars, rateVars>>

WorkerSend(w) ==
    /\ Live
    /\ wpc[w] = "send"
    /\ Len(results) < ResultCap
    /\ results' = Append(results, [check |-> wjob[w], kind |-> wout[w]])
    /\ GoTo(w, "release")
    /\ UNCHANGED <<workerFrame, jobs, activeJobs, countVars, rateVars>>

(* Seeded fault: the early return forgets activeJobs.Add(-1).              *)
FaultAbandonKeepsCount(w) ==
    /\ Live
    /\ wpc[w] = "send"
    /\ wout[w] # "ratelimit"
    /\ ctxDone
    /\ LeaveJob(w, "exited")
    /\ UNCHANGED <<workerFrame, jobs, results, activeJobs, countVars, rateVars>>

(* Only the send of an executed job gives way to p.ctx.Done().             *)
WorkerAbandon(w) ==
    /\ Live
    /\ wpc[w] = "send"
    /\ wout[w] # "ratelimit"
    /\ ctxDone
    /\ activeJobs' = activeJobs - 1
    /\ LeaveJob(w, "exited")
    /\ UNCHANGED <<workerFrame, jobs, results, countVars, rateVars>>

WorkerRelease(w) ==
    /\ Live
    /\ wpc[w] = "release"
    /\ activeJobs' = activeJobs - 1
    /\ GoTo(w, "record")
    /\ UNCHANGED <<workerFrame, jobs, results, countVars, rateVars>>

(* ErrorRateMonitor: checkWindow, count the outcome, updateCircuitState.   *)
(* The thresholds are 0.5 to open and 0.25 to close.                       *)
MonitorRecord(errors, successes) ==
    LET e == (IF windowElapsed THEN 0 ELSE errorCount) + errors
        s == (IF windowElapsed THEN 0 ELSE successCount) + successes
        open == circuitOpen /\ ~windowElapsed
    IN  /\ errorCount' = e
        /\ successCount' = s
        /\ circuitOpen' = IF e + s < MinSamples THEN open
                          ELSE 2 * e >= e + s \/ (open /\ 4 * e >= e + s)
        /\ windowElapsed' = FALSE

(* Seeded fault: rate-limited jobs are not counted as failed.              *)
FaultRateLimitUncounted(w) ==
    /\ Live
    /\ wpc[w] = "record"
    /\ LeaveJob(w, "idle")
    /\ CASE wout[w] = "ratelimit" -> UNCHANGED <<countVars, rateVars>>
         [] wout[w] = "err" ->
              /\ failedJobs' = failedJobs + 1 /\ UNCHANGED completedJobs
              /\ MonitorRecord(1, 0)
         [] wout[w] = "ok" ->
              /\ completedJobs' = completedJobs + 1 /\ UNCHANGED failedJobs
              /\ MonitorRecord(0, 1)
    /\ UNCHANGED <<workerFrame, jobs, results, activeJobs>>

WorkerRecord(w) ==
    /\ Live
    /\ wpc[w] = "record"
    /\ LeaveJob(w, "idle")
    /\ CASE wout[w] = "ratelimit" ->
              failedJobs' = failedJobs + 1 /\ UNCHANGED <<completedJobs, rateVars>>
         [] wout[w] = "err" ->
              /\ failedJobs' = failedJobs + 1 /\ UNCHANGED completedJobs
              /\ MonitorRecord(1, 0)
         [] wout[w] = "ok" ->
              /\ completedJobs' = completedJobs + 1 /\ UNCHANGED failedJobs
              /\ MonitorRecord(0, 1)
    /\ UNCHANGED <<workerFrame, jobs, results, activeJobs>>

WorkerStep(w) ==
    \/ WorkerTake(w) \/ WorkerExit(w) \/ WorkerLimit(w) \/ WorkerRun(w)
    \/ WorkerSend(w) \/ WorkerAbandon(w) \/ WorkerRelease(w) \/ WorkerRecord(w)

-----------------------------------------------------------------------------
(* A consumer of GetResults receives a result.                             *)
Receive ==
    /\ Live
    /\ results # <<>>
    /\ delivered' = Append(delivered, Head(results))
    /\ results' = Tail(results)
    /\ UNCHANGED <<lifeVars, ctxDone, jobs, activeJobs, countVars, submitVars,
                   workerVars, rateVars>>

(* More than a minute has passed since errorRate.lastReset.                *)
WindowElapses ==
    /\ Live
    /\ ~windowElapsed
    /\ windowElapsed' = TRUE
    /\ UNCHANGED <<lifeVars, ctxDone, chanVars, activeJobs, countVars,
                   submitVars, workerVars, errorCount, successCount,
                   circuitOpen>>

PoolNext ==
    \/ Start \/ StopBegin \/ StopDone \/ StopForced \/ ContextDone
    \/ \E s \in Submitters : \/ \E k \in Checks : SubmitBegin(s, k)
                             \/ SubmitStep(s)
    \/ \E w \in Workers : WorkerStep(w)
    \/ Receive \/ WindowElapses

PoolSpec == PoolInit /\ [][PoolNext]_poolVars

-----------------------------------------------------------------------------
(* Every variable has its type: the channels stay within their capacities, *)
(* and a worker in the middle of a job, or a submitter in the middle of    *)
(* Submit, has one.                                                        *)
TypeOK ==
    /\ started \in BOOLEAN /\ stopped \in BOOLEAN /\ stopReturned \in BOOLEAN
    /\ ctxDone \in BOOLEAN /\ crashed \in BOOLEAN
    /\ jobs \in Seq(Checks) /\ Len(jobs) <= QueueCap
    /\ results \in Seq(JobResult) /\ Len(results) <= ResultCap
    /\ delivered \in Seq(JobResult)
    /\ activeJobs \in Int /\ completedJobs \in Nat /\ failedJobs \in Nat
    /\ spc \in [Submitters -> {"idle", "screen", "sending", "sent", "counted"}]
    /\ sjob \in [Submitters -> Checks \cup {None}]
    /\ \A s \in Submitters : spc[s] # "idle" => sjob[s] \in Checks
    /\ tried \subseteq Checks /\ accepted \subseteq Checks
    /\ cancelled \subseteq Checks
    /\ wpc \in [Workers -> {"unstarted", "idle", "exited"}
                             \cup HoldingPlaces \cup RecordingPlaces]
    /\ wjob \in [Workers -> Checks \cup {None}]
    /\ \A w \in Holding \cup Unrecorded : wjob[w] \in Checks
    /\ wout \in [Workers -> Outcomes]
    /\ errorCount \in Nat /\ successCount \in Nat
    /\ circuitOpen \in BOOLEAN /\ windowElapsed \in BOOLEAN

(* activeJobs is exactly the queued and held jobs, short of the ones whose *)
(* Submit has sent but not yet counted: the counter may dip below the jobs *)
(* in flight only by the number of Submits in that window.                 *)
ActiveJobsAccounting ==
    activeJobs + Cardinality(Uncounted) = Len(jobs) + Cardinality(Holding)

(* What WaitForCompletion relies on: when activeJobs reads 0 and no Submit *)
(* is between its send and its count, no job is queued or held.            *)
WaitSound ==
    activeJobs = 0 /\ Uncounted = {} => jobs = <<>> /\ Holding = {}

(* Every result handed to the results channel is counted exactly once as   *)
(* completed or failed, or its worker is about to count it.                *)
ResultsCounted ==
    completedJobs + failedJobs + Cardinality(Unrecorded) =
        Len(results) + Len(delivered)

Queued == {jobs[i] : i \in DOMAIN jobs}
InHand == {wjob[w] : w \in Holding \ Unrecorded}
Outcome == delivered \o results
Resolved == {Outcome[i].check : i \in DOMAIN Outcome}

(* As long as the pool context lives, no accepted job is lost on its way:  *)
(* it is queued, in a worker's hands, or has a result.                     *)
NoJobLost == ~ctxDone => accepted = Queued \cup InHand \cup Resolved

(* No job is run or reported twice: a check has at most one place among    *)
(* the queue, the workers and the results.  The state is well typed, the   *)
(* channels within their capacities.                                       *)
OnePlacePerJob ==
    /\ TypeOK
    /\ Cardinality(Resolved) = Len(Outcome)
    /\ Cardinality(Queued) = Len(jobs)
    /\ Cardinality(InHand) = Cardinality(Holding \ Unrecorded)
    /\ Queued \cap InHand = {}
    /\ (Queued \cup InHand) \cap Resolved = {}

(* No job, submission past the circuit check, or unrecorded outcome left.  *)
Drained ==
    /\ jobs = <<>>
    /\ \A w \in Workers : wpc[w] \in {"unstarted", "idle", "exited"}
    /\ \A s \in Submitters : spc[s] \in {"idle", "screen"}

(* IsOpen never looks at the window: once the circuit is open and the pool *)
(* is drained, no outcome can close it again and every later Submit fails. *)
DrainedCircuitLatches ==
    [][circuitOpen /\ Drained => circuitOpen' /\ Drained']_poolVars

(* "Stop gracefully shuts down the worker pool": a Stop never makes the    *)
(* send of a Submit under way panic.                                       *)
StopIsGraceful == ~crashed
=============================================================================
