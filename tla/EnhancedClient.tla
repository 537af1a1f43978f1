--------------------------- MODULE EnhancedClient ---------------------------
(***************************************************************************)
(* EnhancedClient of internal/docker/client_enhanced.go: API calls that    *)
(* look in the response cache, take a connection slot, wait for the rate   *)
(* limiter, ask the daemon under the retry policy of retry_policy.go, give *)
(* the slot back and fill the cache.                                       *)
(*                                                                         *)
(* Of ClientMetrics only the connection gauge and its peak are modelled;   *)
(* the counters of calls, hits and errors are statistics nothing reads.    *)
(***************************************************************************)
EXTENDS ResponseCache

CONSTANTS
    Callers,        \* goroutines using the client
    Calls,          \* the operations they use
    MaxConnections, \* capacity of connSemaphore
    MaxRetries,     \* retryPolicy.MaxRetries
    MaxNetworks     \* bound on the networks a NetworkList returns

(* ListContainers, InspectContainer, GetNetworkInfo,                       *)
(* GetContainerNetworkConfig, ExecInContainer, Ping.                       *)
Operations == {"list", "inspect", "network", "config", "exec", "ping"}

(* Operations with a cache entry (their own key); the ones whose requests  *)
(* run under ec.ctx rather than the caller's context.                      *)
Cached == {"list", "inspect", "network", "config"}
ClientContext == {"inspect", "network", "config"}

ASSUME ClientAssumption ==
    /\ IsFiniteSet(Callers)
    /\ Calls \subseteq Operations
    /\ Keys = Cached
    /\ MaxConnections \in Nat \ {0}
    /\ MaxRetries \in Nat /\ MaxNetworks \in Nat

VARIABLES
    slots,          \* tokens in connSemaphore
    closed,         \* ec.closed; closeCh is closed
    cancelled,      \* ec.ctx is cancelled and the cache's cleanup stopped
    active, peak,   \* metrics.ActiveConnections, metrics.PeakConnections
    newValue,       \* what ActiveConnections.Add returned to a caller
    highWater,      \* history: the largest ActiveConnections ever
    pc, op,         \* each caller's place and operation
    attempt,        \* retries made of the current request
    more,           \* network inspections left after the current request
    answer          \* the response the call has read, or "none"

connVars  == <<slots, closed, cancelled>>
gaugeVars == <<active, peak, newValue, highWater>>
callVars  == <<pc, op, attempt, more, answer>>
vars      == <<cacheVars, connVars, gaugeVars, callVars>>

(* The context of the call is certainly done.  Any context may also end at *)
(* any time: then a wait for a slot is cancelled, the limiter refuses, the *)
(* request fails or the backoff is cut short.                              *)
ContextDone(c) == cancelled /\ op[c] \in ClientContext

ActivePlaces == {"peak", "limit", "request", "backoff", "deactivate"}
Activated == {c \in Callers : pc[c] \in ActivePlaces}
Holding ==
    {c \in Callers : pc[c] \in ActivePlaces \cup {"activate", "settle", "return"}}

-----------------------------------------------------------------------------
(* NewEnhancedClient: the semaphore is filled.                             *)
Init ==
    /\ CacheInit
    /\ slots = MaxConnections
    /\ closed = FALSE /\ cancelled = FALSE
    /\ active = 0 /\ peak = 0 /\ highWater = 0
    /\ newValue = [c \in Callers |-> 0]
    /\ pc = [c \in Callers |-> "idle"]
    /\ op = [c \in Callers |-> "ping"]
    /\ attempt = [c \in Callers |-> 0]
    /\ more = [c \in Callers |-> 0]
    /\ answer = [c \in Callers |-> "none"]

GoTo(c, place) ==
    /\ pc' = [pc EXCEPT ![c] = place]
    /\ UNCHANGED <<op, attempt, more, answer>>

(* The call returns to its caller, with its answer or an error.            *)
Leave(c) ==
    /\ pc' = [pc EXCEPT ![c] = "idle"]
    /\ op' = [op EXCEPT ![c] = "ping"]
    /\ attempt' = [attempt EXCEPT ![c] = 0]
    /\ more' = [more EXCEPT ![c] = 0]
    /\ answer' = [answer EXCEPT ![c] = "none"]

(* A call starts; a cached operation that finds its response returns it.   *)
BeginCall(c, o) ==
    /\ pc[c] = "idle"
    /\ IF o \in Cached /\ Found(o)
       THEN UNCHANGED <<pc, op>>
       ELSE /\ pc' = [pc EXCEPT ![c] = "check"]
            /\ op' = [op EXCEPT ![c] = o]
    /\ UNCHANGED <<cacheVars, connVars, gaugeVars, attempt, more,
                   answer>>

-----------------------------------------------------------------------------
(* executeWithRateLimit.  When it is over, the call goes on with the next  *)
(* network inspection, the cache fill, or the return.  An error ends the   *)
(* call unless the network list has already been read: a failed inspection *)
(* becomes part of the answer.                                             *)
AfterRequest(c) ==
    \/ /\ answer[c] = "none"
       /\ Leave(c)
    \/ /\ answer[c] # "none" /\ more[c] > 0
       /\ pc' = [pc EXCEPT ![c] = "check"]
       /\ more' = [more EXCEPT ![c] = @ - 1]
       /\ UNCHANGED <<op, attempt, answer>>
    \/ /\ answer[c] # "none" /\ more[c] = 0
       /\ IF op[c] \in Cached THEN GoTo(c, "store") ELSE Leave(c)

(* Seeded fault: the closed flag is not checked.                           *)
FaultIgnoresClosed(c) ==
    /\ pc[c] = "check"
    /\ GoTo(c, "acquire")
    /\ UNCHANGED <<cacheVars, connVars, gaugeVars>>

CheckOpen(c) ==
    /\ pc[c] = "check"
    /\ IF closed THEN AfterRequest(c) ELSE GoTo(c, "acquire")
    /\ UNCHANGED <<cacheVars, connVars, gaugeVars>>

AcquireSlot(c) ==
    /\ pc[c] = "acquire"
    /\ slots > 0
    /\ slots' = slots - 1
    /\ GoTo(c, "activate")
    /\ UNCHANGED <<cacheVars, closed, cancelled, gaugeVars>>

AcquireRefused(c) ==
    /\ pc[c] = "acquire"
    /\ closed
    /\ AfterRequest(c)
    /\ UNCHANGED <<cacheVars, connVars, gaugeVars>>

(* ctx.Done() while the caller waits for a slot.                           *)
AcquireCancelled(c) ==
    /\ pc[c] = "acquire"
    /\ AfterRequest(c)
    /\ UNCHANGED <<cacheVars, connVars, gaugeVars>>

(* UpdateActiveConnections(1): the atomic add, then the peak under m.mu.   *)
Activate(c) ==
    /\ pc[c] = "activate"
    /\ active' = active + 1
    /\ newValue' = [newValue EXCEPT ![c] = active + 1]
    /\ highWater' = IF active + 1 > highWater THEN active + 1 ELSE highWater
    /\ GoTo(c, "peak")
    /\ UNCHANGED <<cacheVars, connVars, peak>>

RecordPeak(c) ==
    /\ pc[c] = "peak"
    /\ peak' = IF newValue[c] > peak THEN newValue[c] ELSE peak
    /\ newValue' = [newValue EXCEPT ![c] = 0]
    /\ GoTo(c, "limit")
    /\ UNCHANGED <<cacheVars, connVars, active, highWater>>

(* Seeded fault: a rate limit error returns without giving the slot back.  *)
FaultRateLimitLeaks(c) ==
    /\ pc[c] = "limit"
    /\ IF ~ContextDone(c)
       THEN GoTo(c, "request") /\ UNCHANGED active
       ELSE AfterRequest(c) /\ active' = active - 1
    /\ UNCHANGED <<cacheVars, connVars, peak, newValue, highWater>>

(* rate.Limiter.Wait(ctx): a token, or an error because the context is     *)
(* done or would be done before the next token.                            *)
RateLimit(c) ==
    /\ pc[c] = "limit"
    /\ \/ ~ContextDone(c) /\ GoTo(c, "request")
       \/ GoTo(c, "deactivate")
    /\ UNCHANGED <<cacheVars, connVars, gaugeVars>>

(* One attempt of the retry policy that the daemon answers.  The first     *)
(* answer of a call is the data it returns; NetworkList also says how many *)
(* inspections follow.                                                     *)
RequestSucceeds(c) ==
    /\ pc[c] = "request"
    /\ ~ContextDone(c)
    /\ pc' = [pc EXCEPT ![c] = "deactivate"]
    /\ attempt' = [attempt EXCEPT ![c] = 0]
    /\ IF answer[c] = "none"
       THEN /\ answer' = [answer EXCEPT ![c] = "fresh"]
            /\ \E n \in 0 .. (IF op[c] = "network" THEN MaxNetworks ELSE 0) :
                  more' = [more EXCEPT ![c] = n]
       ELSE UNCHANGED <<answer, more>>
    /\ UNCHANGED <<cacheVars, connVars, gaugeVars, op>>

(* The request is given up: the error is not retryable, the retries are    *)
(* used up, or the context ended during the backoff.                       *)
GiveUp(c) ==
    /\ pc' = [pc EXCEPT ![c] = "deactivate"]
    /\ attempt' = [attempt EXCEPT ![c] = 0]
    /\ UNCHANGED <<op, more, answer>>

(* Seeded fault: one retry too many.                                       *)
FaultExtraRetry(c) ==
    /\ pc[c] = "request"
    /\ \/ GiveUp(c)
       \/ attempt[c] <= MaxRetries /\ GoTo(c, "backoff")
    /\ UNCHANGED <<cacheVars, connVars, gaugeVars>>

RequestFails(c) ==
    /\ pc[c] = "request"
    /\ \/ GiveUp(c)
       \/ attempt[c] < MaxRetries /\ GoTo(c, "backoff")
    /\ UNCHANGED <<cacheVars, connVars, gaugeVars>>

(* The backoff timer, or the end of the context (its timeout included).    *)
Backoff(c) ==
    /\ pc[c] = "backoff"
    /\ \/ GiveUp(c)
       \/ /\ pc' = [pc EXCEPT ![c] = "request"]
          /\ attempt' = [attempt EXCEPT ![c] = @ + 1]
          /\ UNCHANGED <<op, more, answer>>
    /\ UNCHANGED <<cacheVars, connVars, gaugeVars>>

(* The deferred calls, last one first: UpdateActiveConnections(-1), whose  *)
(* decremented value may be a peak nobody has recorded yet, then the slot. *)
Deactivate(c) ==
    /\ pc[c] = "deactivate"
    /\ active' = active - 1
    /\ newValue' = [newValue EXCEPT ![c] = active - 1]
    /\ GoTo(c, "settle")
    /\ UNCHANGED <<cacheVars, connVars, peak, highWater>>

RecordDrop(c) ==
    /\ pc[c] = "settle"
    /\ peak' = IF newValue[c] > peak THEN newValue[c] ELSE peak
    /\ newValue' = [newValue EXCEPT ![c] = 0]
    /\ GoTo(c, "return")
    /\ UNCHANGED <<cacheVars, connVars, active, highWater>>

(* Seeded fault: the slot is kept for the network inspections.             *)
FaultKeepsSlot(c) ==
    /\ pc[c] = "return"
    /\ slots' = IF more[c] > 0 THEN slots ELSE slots + 1
    /\ AfterRequest(c)
    /\ UNCHANGED <<cacheVars, closed, cancelled, gaugeVars>>

ReturnSlot(c) ==
    /\ pc[c] = "return"
    /\ slots < MaxConnections
    /\ slots' = slots + 1
    /\ AfterRequest(c)
    /\ UNCHANGED <<cacheVars, closed, cancelled, gaugeVars>>

(* The answer goes into the cache and to the caller.                       *)
FillCache(c) ==
    /\ pc[c] = "store"
    /\ Set(op[c], answer[c])
    /\ Leave(c)
    /\ UNCHANGED <<connVars, gaugeVars>>

CallStep(c) ==
    \/ CheckOpen(c) \/ AcquireSlot(c) \/ AcquireRefused(c) \/ Activate(c)
    \/ RecordPeak(c) \/ RateLimit(c) \/ RequestSucceeds(c) \/ RequestFails(c)
    \/ Backoff(c) \/ Deactivate(c) \/ RecordDrop(c) \/ ReturnSlot(c)
    \/ FillCache(c)

-----------------------------------------------------------------------------
(* Responses on their way to a caller are now from before the invalidation.*)
InvalidateCache ==
    /\ InvalidateAll
    /\ answer' = [c \in Callers |-> IF answer[c] = "none" THEN "none" ELSE "stale"]
    /\ UNCHANGED <<connVars, gaugeVars, pc, op, attempt, more>>

(* Close: the flag and closeCh, then the cancel of ec.ctx and the Close of *)
(* the cache, which stops its cleanup and keeps its entries.               *)
Close ==
    /\ ~closed
    /\ closed' = TRUE
    /\ UNCHANGED <<cacheVars, slots, cancelled, gaugeVars, callVars>>

CloseCancel ==
    /\ closed /\ ~cancelled
    /\ cancelled' = TRUE
    /\ UNCHANGED <<cacheVars, slots, closed, gaugeVars, callVars>>

(* Time passes in the cache: TTLs, and the cleanup goroutine until Close.  *)
CacheStep ==
    /\ \/ ~cancelled /\ cleanupExpired
       \/ \E k \in Keys : Expire(k)
    /\ UNCHANGED <<connVars, gaugeVars, callVars>>

Next ==
    \/ \E c \in Callers : \/ \E o \in Calls : BeginCall(c, o)
                          \/ CallStep(c)
                          \/ AcquireCancelled(c)
    \/ InvalidateCache \/ Close \/ CloseCancel \/ CacheStep

(* A goroutine that can run does; requests, limiter waits and backoffs     *)
(* end; no context is assumed to end.  The receivers of a Go channel queue *)
(* up in order, so a caller that waits while slots keep coming back gets   *)
(* one.                                                                    *)
Fairness ==
    \A c \in Callers : WF_vars(CallStep(c)) /\ SF_vars(AcquireSlot(c))

Spec == Init /\ [][Next]_vars /\ Fairness

-----------------------------------------------------------------------------
(* Every variable of the client has its type; the semaphore channel is     *)
(* never overfull and a request is retried at most MaxRetries times.       *)
ClientTypeOK ==
    /\ slots \in 0 .. MaxConnections
    /\ closed \in BOOLEAN /\ cancelled \in BOOLEAN
    /\ active \in Int /\ peak \in Nat /\ highWater \in Nat
    /\ newValue \in [Callers -> Int]
    /\ pc \in [Callers -> {"idle", "check", "acquire", "activate", "settle",
                           "return", "store"} \cup ActivePlaces]
    /\ op \in [Callers -> Operations]
    /\ attempt \in [Callers -> 0 .. MaxRetries]
    /\ more \in [Callers -> 0 .. MaxNetworks]
    /\ answer \in [Callers -> Responses \cup {"none"}]

(* Every variable has its type, the cache's included.                      *)
TypeOK == CacheTypeOK /\ ClientTypeOK

(* No path out of executeWithRateLimit (rate limit error, failed request,  *)
(* cancelled wait, closing client) leaks or invents a connection slot, and *)
(* the gauge counts exactly the callers between its two updates.           *)
SlotsConserved ==
    /\ slots + Cardinality(Holding) = MaxConnections
    /\ active = Cardinality(Activated)

(* PeakConnections misses no peak for good: the true maximum of the gauge  *)
(* is recorded, or a caller holds it and is about to record it; and the    *)
(* peak never exceeds the connection limit.                                *)
PeakExact ==
    /\ \/ peak = highWater
       \/ \E c \in Callers : pc[c] = "peak" /\ newValue[c] = highWater
    /\ peak <= highWater /\ highWater <= MaxConnections

(* Every call returns: waiting for slots, tokens, retries and inspections  *)
(* never blocks a caller for ever, while others keep calling and whether   *)
(* the client is being closed or not.                                      *)
CallsReturn == \A c \in Callers : pc[c] # "idle" ~> pc[c] = "idle"

(* The client is closed and no call that had passed the check is left.     *)
Quiet == closed /\ Holding = {} /\ \A c \in Callers : pc[c] # "acquire"

(* Once the client is closed and the calls that were past the check have   *)
(* ended, no connection is ever taken again.                               *)
ClosedClientQuiet == [][Quiet => Quiet']_vars
=============================================================================
