------------------------------- MODULE Engine -------------------------------
(***************************************************************************)
(* One DiagnosticEngine.Run (internal/diagnostics/engine.go).  In parallel *)
(* (runWithWorkerPool) the goroutine of Run is the pool's only submitter,  *)
(* its only consumer and the caller of Stop.  In sequence (runSequential)  *)
(* it waits for the rate limiter and runs each check itself.               *)
(***************************************************************************)
EXTENDS WorkerPool

CONSTANTS
    CheckList,      \* e.checks: the checks in registration order
    Daemon          \* daemon_connectivity

ASSUME EngineAssumption ==
    /\ Cardinality(Submitters) = 1
    /\ CheckList \in Seq(Checks)
    /\ \A i, j \in DOMAIN CheckList : CheckList[i] = CheckList[j] => i = j

VARIABLES
    parallel,   \* config.Parallel
    epc,        \* where Run is
    nextCheck,  \* index into e.checks of the next check to submit or run
    collected,  \* collectedCount
    report,     \* names in e.results.Checks, in the order of arrival
    outcome,    \* how collection, or the sequence, ended
    runCtx      \* Run's context: live, cancelled by the caller, past its deadline

poolFrame == <<lifeVars, chanVars, activeJobs, countVars, submitVars, workerVars,
               rateVars, ctxDone>>
engineVars == <<parallel, epc, nextCheck, collected, report, outcome, runCtx>>
vars == <<poolVars, engineVars>>

expectedCount == Len(CheckList)
Engine == CHOOSE s \in Submitters : TRUE
Reported == {report[i] : i \in DOMAIN report}

-----------------------------------------------------------------------------
Init ==
    /\ PoolInit
    /\ parallel \in BOOLEAN
    /\ epc = "new" /\ nextCheck = 1 /\ collected = 0
    /\ report = <<>> /\ outcome = "none" /\ runCtx = "live"

StartPool ==
    /\ epc = "new" /\ parallel
    /\ Start
    /\ epc' = "submit"
    /\ UNCHANGED <<parallel, nextCheck, collected, report, outcome, runCtx>>

(* The loop over e.checks: a failed Submit is skipped.                     *)
SubmitNext ==
    /\ epc = "submit"
    /\ nextCheck <= expectedCount
    /\ SubmitBegin(Engine, CheckList[nextCheck])
    /\ nextCheck' = nextCheck + 1
    /\ UNCHANGED <<parallel, epc, collected, report, outcome, runCtx>>

SubmitsDone ==
    /\ epc = "submit"
    /\ nextCheck > expectedCount
    /\ spc[Engine] = "idle"
    /\ epc' = "collect"
    /\ UNCHANGED <<poolVars, parallel, nextCheck, collected, report, outcome, runCtx>>

(* A result without a CheckResult (rate limit error) is counted, not kept. *)
Collect ==
    /\ epc = "collect"
    /\ collected < expectedCount
    /\ Receive
    /\ collected' = collected + 1
    /\ report' = IF Head(results).kind = "ratelimit" THEN report
                 ELSE Append(report, Head(results).check)
    /\ UNCHANGED <<parallel, epc, nextCheck, outcome, runCtx>>

(* Seeded fault: collection ends one result early.                         *)
FaultCollectDoneEarly ==
    /\ epc = "collect"
    /\ collected + 1 >= expectedCount
    /\ outcome' = "complete"
    /\ epc' = "stop"
    /\ UNCHANGED <<poolVars, parallel, nextCheck, collected, report, runCtx>>

(* Seeded fault: collection waits for one result too many.                 *)
FaultCollectDoneLate ==
    /\ epc = "collect"
    /\ collected > expectedCount
    /\ outcome' = "complete"
    /\ epc' = "stop"
    /\ UNCHANGED <<poolVars, parallel, nextCheck, collected, report, runCtx>>

CollectDone ==
    /\ epc = "collect"
    /\ collected = expectedCount
    /\ outcome' = "complete"
    /\ epc' = "stop"
    /\ UNCHANGED <<poolVars, parallel, nextCheck, collected, report, runCtx>>

(* Seeded fault: collection watches its own timer, not the context.        *)
FaultCollectIgnoresContext ==
    /\ epc = "collect"
    /\ collected < expectedCount
    /\ runCtx = "deadline" /\ outcome' = "partial"
    /\ epc' = "stop"
    /\ UNCHANGED <<poolVars, parallel, nextCheck, collected, report, runCtx>>

(* The context ends the run with an error.  The collection timer has the   *)
(* same duration as Run's deadline and starts later, so it can win only    *)
(* once the deadline has passed; it keeps the partial results.             *)
CollectAborted ==
    /\ epc = "collect"
    /\ collected < expectedCount
    /\ \/ runCtx # "live" /\ outcome' = "error"
       \/ runCtx = "deadline" /\ outcome' = "partial"
    /\ epc' = "stop"
    /\ UNCHANGED <<poolVars, parallel, nextCheck, collected, report, runCtx>>

(* Seeded fault: the pool is stopped as soon as the context ends.          *)
FaultStopOnCancel ==
    /\ \/ epc = "stop" /\ epc' = "stopping"
       \/ epc = "submit" /\ runCtx # "live" /\ UNCHANGED epc
    /\ StopBegin
    /\ UNCHANGED <<parallel, nextCheck, collected, report, outcome, runCtx>>

(* The deferred pool.Stop().                                               *)
StopPool ==
    /\ epc = "stop"
    /\ StopBegin
    /\ epc' = "stopping"
    /\ UNCHANGED <<parallel, nextCheck, collected, report, outcome, runCtx>>

StopWait ==
    /\ epc = "stopping"
    /\ StopDone \/ StopForced
    /\ UNCHANGED engineVars

-----------------------------------------------------------------------------
(* runSequential: one check per step.                                      *)
StartSequence ==
    /\ Live /\ epc = "new" /\ ~parallel
    /\ epc' = "sequence"
    /\ UNCHANGED <<poolFrame, parallel, nextCheck, collected, report, outcome, runCtx>>

(* RateLimiter.Wait: a token or, by its WaitTimeout or because the context *)
(* would end first, an error; an error for certain once the context ended. *)
RateLimiterWait == IF runCtx = "live" THEN BOOLEAN ELSE {FALSE}

(* Seeded fault: a refused check is passed over, as the pool's path does.  *)
FaultRefusedNotReported ==
    /\ Live /\ epc = "sequence" /\ nextCheck <= expectedCount
    /\ FALSE \in RateLimiterWait
    /\ nextCheck' = nextCheck + 1
    /\ UNCHANGED <<poolFrame, parallel, epc, collected, report, outcome, runCtx>>

(* The limiter fails: the check gets a failed result and the loop goes on. *)
CheckRefused ==
    /\ Live /\ epc = "sequence" /\ nextCheck <= expectedCount
    /\ FALSE \in RateLimiterWait
    /\ report' = Append(report, CheckList[nextCheck])
    /\ nextCheck' = nextCheck + 1
    /\ UNCHANGED <<poolFrame, parallel, epc, collected, outcome, runCtx>>

(* shouldStopOnFailure.                                                    *)
shouldStopOnFailure(k) == k = Daemon

(* The limiter lets the check through and runCheckSafely returns a result: *)
(* the check's own, or one made of its error.                              *)
CheckRuns(success) ==
    /\ Live /\ epc = "sequence" /\ nextCheck <= expectedCount
    /\ TRUE \in RateLimiterWait
    /\ report' = Append(report, CheckList[nextCheck])
    /\ nextCheck' = nextCheck + 1
    /\ IF ~success /\ shouldStopOnFailure(CheckList[nextCheck])
       THEN epc' = "summary" /\ outcome' = "stopped"
       ELSE UNCHANGED <<epc, outcome>>
    /\ UNCHANGED <<poolFrame, parallel, collected, runCtx>>

(* The check panics: runCheckSafely recovers and returns nil, which the    *)
(* loop dereferences, and nothing recovers that.                           *)
CheckPanics ==
    /\ ~crashed /\ epc = "sequence" /\ nextCheck <= expectedCount
    /\ TRUE \in RateLimiterWait
    /\ crashed' = TRUE
    /\ UNCHANGED <<poolFrame, engineVars>>

SequenceDone ==
    /\ Live /\ epc = "sequence" /\ nextCheck > expectedCount
    /\ epc' = "summary" /\ outcome' = "complete"
    /\ UNCHANGED <<poolFrame, parallel, nextCheck, collected, report, runCtx>>

SequenceStep ==
    \/ StartSequence \/ CheckRefused \/ CheckPanics \/ SequenceDone
    \/ \E success \in BOOLEAN : CheckRuns(success)

-----------------------------------------------------------------------------
(* Run returns; its deferred cancel ends the context and the pool's.       *)
Return ==
    /\ Live
    /\ epc = "summary" \/ (epc = "stopping" /\ stopReturned)
    /\ epc' = "returned"
    /\ ctxDone' = TRUE
    /\ UNCHANGED <<lifeVars, chanVars, activeJobs, countVars, submitVars,
                   workerVars, rateVars, parallel, nextCheck, collected,
                   report, outcome, runCtx>>

-----------------------------------------------------------------------------
(* The caller cancels, or Run's timeout passes; the pool's context follows.*)
RunCancelled ==
    /\ Live
    /\ runCtx = "live" /\ epc # "returned"
    /\ runCtx' = "cancelled"
    /\ ctxDone' = TRUE
    /\ UNCHANGED <<lifeVars, chanVars, activeJobs, countVars, submitVars,
                   workerVars, rateVars, parallel, epc, nextCheck, collected,
                   report, outcome>>

RunDeadline ==
    /\ Live
    /\ runCtx # "deadline" /\ epc # "returned"
    /\ runCtx' = "deadline"
    /\ ctxDone' = TRUE
    /\ UNCHANGED <<lifeVars, chanVars, activeJobs, countVars, submitVars,
                   workerVars, rateVars, parallel, epc, nextCheck, collected,
                   report, outcome>>

RunStep ==
    \/ StartPool \/ SubmitNext \/ SubmitsDone \/ Collect \/ CollectDone
    \/ CollectAborted \/ StopPool \/ StopWait \/ SequenceStep \/ Return

PoolStep ==
    \/ SubmitStep(Engine) /\ UNCHANGED engineVars
    \/ \E w \in Workers : WorkerStep(w) /\ UNCHANGED engineVars
    \/ ContextDone /\ UNCHANGED engineVars
    \/ WindowElapses /\ UNCHANGED engineVars

Next == RunStep \/ PoolStep \/ RunCancelled \/ RunDeadline

(* The Go scheduler runs every runnable goroutine, checks return, the      *)
(* limiter hands out tokens and the 10 second timer of Stop fires.  No     *)
(* context is assumed to end.                                              *)
Fairness ==
    /\ WF_vars(RunStep)
    /\ WF_vars(SubmitStep(Engine) /\ UNCHANGED engineVars)
    /\ \A w \in Workers : WF_vars(WorkerStep(w) /\ UNCHANGED engineVars)

Spec == Init /\ [][Next]_vars /\ Fairness

-----------------------------------------------------------------------------
(* Every engine variable has its type.                                     *)
EngineTypeOK ==
    /\ epc \in {"new", "submit", "collect", "stop", "stopping", "sequence", "summary",
                "returned"}
    /\ nextCheck \in 1 .. expectedCount + 1
    /\ collected \in 0 .. expectedCount
    /\ report \in Seq(Checks)
    /\ outcome \in {"none", "complete", "partial", "error", "stopped"}
    /\ runCtx \in {"live", "cancelled", "deadline"}

(* In parallel Run never sends on the job channel it closed: the Submit    *)
(* loop and the deferred Stop of one goroutine cannot overlap on any path  *)
(* out of runWithWorkerPool, and the panic of a check goes no further.     *)
NoPanic == parallel => ~crashed

(* The report of a parallel Run never names a check twice, and names only  *)
(* checks that were submitted and whose job was answered by a worker.      *)
ReportFaithful ==
    /\ EngineTypeOK
    /\ Cardinality(Reported) = Len(report)
    /\ parallel => /\ Reported \subseteq accepted \cap Resolved
                   /\ Reported \cap (Queued \cup InHand) = {}

(* The report of a sequential Run follows the registration order with one  *)
(* entry for each check it came to, refused ones included; it is short     *)
(* only if the daemon check was the last, or if a check panicked.          *)
SequenceReported ==
    ~parallel =>
        /\ report = SubSeq(CheckList, 1, nextCheck - 1)
        /\ epc = "returned" =>
              ~crashed /\ (Len(report) = expectedCount \/ report[Len(report)] = Daemon)

(* When collection ends by count, every check was accepted by Submit, all  *)
(* results were collected, and no job is left behind for Stop to wait for. *)
CompleteLeavesNothing ==
    (parallel /\ outcome = "complete") =>
        /\ accepted = {CheckList[i] : i \in DOMAIN CheckList}
        /\ jobs = <<>> /\ results = <<>>
        /\ Holding \subseteq Unrecorded

(* Once its context ended, Run returns: no mix of rejected submissions,    *)
(* full channels and slow workers keeps it waiting for ever.  Only a check *)
(* that panics in sequence keeps it from returning.                        *)
RunReturns == (runCtx # "live") ~> (epc = "returned" \/ (crashed /\ ~parallel))

(* No goroutine outlives Run for good: every worker exits after Run        *)
(* returned, also when Stop gave up on it and nobody drains the results.   *)
WorkersExit == (parallel /\ epc = "returned") ~> \A w \in Workers : wpc[w] = "exited"

(* Collection needs no timeout: once every check was accepted, Run leaves  *)
(* the collection loop by itself, unless the pool's context ended first.   *)
AcceptedChecksCollected ==
    (epc = "collect" /\ Cardinality(accepted) = expectedCount)
        ~> (epc # "collect" \/ ctxDone)

(* "Returns: Results containing all check outcomes": a run whose           *)
(* collection completed reports every check.                               *)
CompleteRunReportsEveryCheck ==
    outcome = "complete" => Reported = {CheckList[i] : i \in DOMAIN CheckList}

(* "A failing check doesn't crash the entire diagnostic process": no check *)
(* ends the process, whichever way Run executes it.                        *)
NoCheckCrashes == ~crashed

(* "Will return partial results if execution is interrupted": what was     *)
(* collected before the context ended is not given up for an error.        *)
InterruptedRunKeepsResults ==
    epc = "returned" /\ report # <<>> => outcome # "error"
=============================================================================
