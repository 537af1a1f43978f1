------------------------ MODULE EnhancedClientProofs ------------------------
(***************************************************************************)
(* Connection accounting of the Docker client and the bound of its cache,  *)
(* for any number of callers, any capacity of the semaphore and the cache  *)
(* and any retry and network bounds.                                       *)
(***************************************************************************)
EXTENDS EnhancedClient, FiniteSetTheorems, WellFoundedInduction, TLAPS

(* Every value a caller is about to compare with the peak, and the gauge   *)
(* itself, are below the largest gauge value so far.                       *)
PendingBelow ==
    /\ active <= highWater
    /\ \A c \in Callers : newValue[c] <= highWater

(* Slots, gauge and peak, with the types they need.                        *)
Accounting ==
    /\ ClientTypeOK
    /\ SlotsConserved
    /\ PeakExact
    /\ PendingBelow

(* A backoff is only begun with a retry left.                              *)
RetryBudget ==
    \A c \in Callers : pc[c] = "backoff" => attempt[c] < MaxRetries

(* The inductive invariant.                                                *)
IInv == Accounting /\ RetryBudget

Places == {"idle", "check", "acquire", "activate", "settle", "return",
           "store"} \cup ActivePlaces
HoldingPlaces == ActivePlaces \cup {"activate", "settle", "return"}

-----------------------------------------------------------------------------
(* Holders and activated callers are finite, and every activated caller    *)
(* holds a slot.                                                           *)
LEMMA HoldersFinite ==
    /\ IsFiniteSet(Holding) /\ Cardinality(Holding) \in Nat
    /\ IsFiniteSet(Activated) /\ Cardinality(Activated) \in Nat
    /\ Cardinality(Activated) <= Cardinality(Holding)
<1>1. IsFiniteSet(Holding)
  BY FS_Subset, ClientAssumption DEF Holding
<1>2. Activated \subseteq Holding
  BY DEF Holding, Activated
<1> QED
  BY <1>1, <1>2, FS_Subset, FS_CardinalityType

(* A step of one caller that stays inside or outside HoldingPlaces leaves  *)
(* the holders as they are, and likewise for the activated callers.        *)
LEMMA SameHolders ==
    ASSUME pc \in [Callers -> Places], NEW c \in Callers, NEW place,
           pc' = [pc EXCEPT ![c] = place],
           (pc[c] \in HoldingPlaces) <=> (place \in HoldingPlaces)
    PROVE  Holding' = Holding
  BY DEF Holding, HoldingPlaces

LEMMA SameActivated ==
    ASSUME pc \in [Callers -> Places], NEW c \in Callers, NEW place,
           pc' = [pc EXCEPT ![c] = place],
           (pc[c] \in ActivePlaces) <=> (place \in ActivePlaces)
    PROVE  Activated' = Activated
  BY DEF Activated

(* A caller that takes a slot is one more holder, one that returns its     *)
(* slot one less; the same for the gauge.                                  *)
LEMMA OneMoreHolder ==
    ASSUME pc \in [Callers -> Places], NEW c \in Callers, NEW place,
           pc' = [pc EXCEPT ![c] = place],
           pc[c] \notin HoldingPlaces, place \in HoldingPlaces
    PROVE  Cardinality(Holding') = Cardinality(Holding) + 1
<1>1. Holding' = Holding \cup {c} /\ c \notin Holding
  BY DEF Holding, HoldingPlaces
<1> QED
  BY <1>1, HoldersFinite, FS_AddElement

LEMMA OneLessHolder ==
    ASSUME pc \in [Callers -> Places], NEW c \in Callers, NEW place,
           pc' = [pc EXCEPT ![c] = place],
           pc[c] \in HoldingPlaces, place \notin HoldingPlaces
    PROVE  Cardinality(Holding') = Cardinality(Holding) - 1
<1>1. Holding' = Holding \ {c} /\ c \in Holding
  BY DEF Holding, HoldingPlaces
<1> QED
  BY <1>1, HoldersFinite, FS_RemoveElement

LEMMA OneMoreActive ==
    ASSUME pc \in [Callers -> Places], NEW c \in Callers, NEW place,
           pc' = [pc EXCEPT ![c] = place],
           pc[c] \notin ActivePlaces, place \in ActivePlaces
    PROVE  Cardinality(Activated') = Cardinality(Activated) + 1
<1>1. Activated' = Activated \cup {c} /\ c \notin Activated
  BY DEF Activated
<1> QED
  BY <1>1, HoldersFinite, FS_AddElement

LEMMA OneLessActive ==
    ASSUME pc \in [Callers -> Places], NEW c \in Callers, NEW place,
           pc' = [pc EXCEPT ![c] = place],
           pc[c] \in ActivePlaces, place \notin ActivePlaces
    PROVE  Cardinality(Activated') = Cardinality(Activated) - 1
<1>1. Activated' = Activated \ {c} /\ c \in Activated
  BY DEF Activated
<1> QED
  BY <1>1, HoldersFinite, FS_RemoveElement

(* The types of a caller's own variables, spelled out.                     *)
LEMMA CallerTypes ==
    ASSUME ClientTypeOK
    PROVE  /\ pc \in [Callers -> Places]
           /\ op \in [Callers -> Operations]
           /\ attempt \in [Callers -> 0 .. MaxRetries]
           /\ more \in [Callers -> 0 .. MaxNetworks]
           /\ answer \in [Callers -> Responses \cup {"none"}]
  BY DEF ClientTypeOK, Places

(* A caller's variables stay well typed.                                   *)
CallTypes ==
    /\ pc \in [Callers -> Places]
    /\ op \in [Callers -> Operations]
    /\ attempt \in [Callers -> 0 .. MaxRetries]
    /\ more \in [Callers -> 0 .. MaxNetworks]
    /\ answer \in [Callers -> Responses \cup {"none"}]

(* Leave and GoTo keep the types and move one caller.                      *)
LEMMA GoToTypes ==
    ASSUME ClientTypeOK, NEW c \in Callers, NEW place \in Places,
           GoTo(c, place)
    PROVE  CallTypes' /\ pc' = [pc EXCEPT ![c] = place]
  BY CallerTypes DEF GoTo, CallTypes

LEMMA LeaveTypes ==
    ASSUME ClientTypeOK, NEW c \in Callers, Leave(c)
    PROVE  CallTypes' /\ pc' = [pc EXCEPT ![c] = "idle"]
  BY CallerTypes, ClientAssumption
  DEF Leave, CallTypes, Places, Operations

(* After a request the caller leaves, checks again or stores: it is        *)
(* nowhere it would hold a slot, and it is not waiting for one.            *)
LEMMA AfterRequestMoves ==
    ASSUME ClientTypeOK, NEW c \in Callers, AfterRequest(c)
    PROVE  /\ CallTypes'
           /\ \E place \in {"idle", "check", "store"} :
                 pc' = [pc EXCEPT ![c] = place]
<1>1. CASE Leave(c)
  BY <1>1, LeaveTypes
<1>2. CASE GoTo(c, "store")
  <2>1. "store" \in Places
    BY DEF Places
  <2> QED
    BY <1>2, <2>1, GoToTypes
<1>3. CASE /\ more[c] > 0
           /\ pc' = [pc EXCEPT ![c] = "check"]
           /\ more' = [more EXCEPT ![c] = @ - 1]
           /\ UNCHANGED <<op, attempt, answer>>
  <2>1. more[c] \in 0 .. MaxNetworks /\ more[c] - 1 \in 0 .. MaxNetworks
    BY <1>3, CallerTypes, ClientAssumption
  <2>2. more' \in [Callers -> 0 .. MaxNetworks]
    BY <1>3, <2>1, CallerTypes
  <2> QED
    BY <1>3, <2>2, CallerTypes DEF CallTypes, Places
<1> QED
  BY <1>1, <1>2, <1>3 DEF AfterRequest

(* GiveUp goes to the deferred calls.                                      *)
LEMMA GiveUpTypes ==
    ASSUME ClientTypeOK, NEW c \in Callers, GiveUp(c)
    PROVE  CallTypes' /\ pc' = [pc EXCEPT ![c] = "deactivate"]
  BY CallerTypes, ClientAssumption DEF GiveUp, CallTypes, Places, ActivePlaces

-----------------------------------------------------------------------------
(* A step that moves one caller between places of the same kind, and       *)
(* leaves slots and gauge alone, preserves the invariant.                  *)
LEMMA MovePreserves ==
    ASSUME Accounting, NEW c \in Callers, NEW place \in Places,
           CallTypes', pc' = [pc EXCEPT ![c] = place],
           UNCHANGED <<connVars, gaugeVars>>,
           pc[c] # "peak",
           (pc[c] \in HoldingPlaces) <=> (place \in HoldingPlaces),
           (pc[c] \in ActivePlaces) <=> (place \in ActivePlaces)
    PROVE  Accounting'
<1>1. pc \in [Callers -> Places]
  BY CallerTypes DEF Accounting
<1>2. Holding' = Holding /\ Activated' = Activated
  BY <1>1, SameHolders, SameActivated
<1>3. ClientTypeOK'
  BY DEF Accounting, ClientTypeOK, CallTypes, Places, connVars, gaugeVars
<1>4. SlotsConserved'
  BY <1>2 DEF Accounting, SlotsConserved, connVars, gaugeVars
<1>5. PeakExact'
  <2>1. \A d \in Callers : pc[d] = "peak" => pc'[d] = "peak"
    BY <1>1
  <2> QED
    BY <2>1 DEF Accounting, PeakExact, gaugeVars
<1> QED
  BY <1>3, <1>4, <1>5 DEF Accounting, PendingBelow, gaugeVars

(* A new client satisfies the invariant.                                   *)
LEMMA InitAccounting == Init => Accounting
<1> SUFFICES ASSUME Init PROVE Accounting
  OBVIOUS
<1>1. ClientTypeOK
  <2>1. 0 \in 0 .. MaxRetries /\ 0 \in 0 .. MaxNetworks
    BY ClientAssumption
  <2>2. slots \in 0 .. MaxConnections
    BY ClientAssumption DEF Init
  <2>3. closed \in BOOLEAN /\ cancelled \in BOOLEAN
    BY Zenon DEF Init
  <2>4. /\ active \in Int /\ peak \in Nat /\ highWater \in Nat
        /\ newValue \in [Callers -> Int]
    BY DEF Init
  <2> QED
    BY <2>1, <2>2, <2>3, <2>4 DEF Init, ClientTypeOK, Operations
<1>2. Holding = {} /\ Activated = {}
  BY DEF Init, Holding, Activated, ActivePlaces
<1>3. SlotsConserved
  BY <1>2, FS_EmptySet, ClientAssumption DEF Init, SlotsConserved
<1> QED
  BY <1>1, <1>3, ClientAssumption DEF Init, Accounting, PeakExact, PendingBelow

-----------------------------------------------------------------------------
(* The steps that take, count and return a connection.                     *)
LEMMA AcquireSlotAccounting ==
    ASSUME Accounting, NEW c \in Callers, AcquireSlot(c)
    PROVE  Accounting'
<1>1. pc \in [Callers -> Places] /\ "activate" \in Places
  BY CallerTypes DEF Accounting, Places
<1>2. CallTypes' /\ pc' = [pc EXCEPT ![c] = "activate"]
  BY <1>1, GoToTypes DEF AcquireSlot, Accounting
<1>3. Cardinality(Holding') = Cardinality(Holding) + 1
  BY <1>1, <1>2, OneMoreHolder DEF AcquireSlot, HoldingPlaces, ActivePlaces
<1>4. Activated' = Activated
  BY <1>1, <1>2, SameActivated DEF AcquireSlot, ActivePlaces
<1>5. slots' \in 0 .. MaxConnections
  BY ClientAssumption DEF Accounting, ClientTypeOK, AcquireSlot
<1>6. ClientTypeOK'
  BY <1>2, <1>5
  DEF AcquireSlot, Accounting, ClientTypeOK, CallTypes, Places, gaugeVars
<1>7. SlotsConserved'
  BY <1>3, <1>4, HoldersFinite, ClientAssumption
  DEF AcquireSlot, Accounting, ClientTypeOK, SlotsConserved, gaugeVars
<1>8. PeakExact'
  BY <1>1, <1>2 DEF AcquireSlot, Accounting, PeakExact, gaugeVars
<1> QED
  BY <1>6, <1>7, <1>8 DEF AcquireSlot, Accounting, PendingBelow, gaugeVars

(* The gauge rises: its new value is at most the number of holders, which  *)
(* the semaphore bounds by MaxConnections.                                 *)
LEMMA ActivateAccounting ==
    ASSUME Accounting, NEW c \in Callers, Activate(c)
    PROVE  Accounting'
<1>1. pc \in [Callers -> Places] /\ "peak" \in Places
  BY CallerTypes DEF Accounting, Places, ActivePlaces
<1>2. CallTypes' /\ pc' = [pc EXCEPT ![c] = "peak"]
  BY <1>1, GoToTypes DEF Activate, Accounting
<1>3. Holding' = Holding
  BY <1>1, <1>2, SameHolders DEF Activate, HoldingPlaces, ActivePlaces
<1>4. Cardinality(Activated') = Cardinality(Activated) + 1
  BY <1>1, <1>2, OneMoreActive DEF Activate, ActivePlaces
<1>5. Cardinality(Activated') <= Cardinality(Holding)
  <2>1. Activated' \subseteq Holding'
    BY DEF Activated, Holding
  <2> QED
    BY <1>3, <2>1, HoldersFinite, FS_Subset
<1>6. active \in Int /\ highWater \in Nat /\ slots \in Nat
  BY ClientAssumption DEF Accounting, ClientTypeOK
<1>7. newValue' \in [Callers -> Int] /\ newValue'[c] = active + 1
  BY <1>6 DEF Activate, Accounting, ClientTypeOK
<1>8. ClientTypeOK'
  BY <1>2, <1>6, <1>7
  DEF Activate, Accounting, ClientTypeOK, CallTypes, Places, connVars
<1>9. SlotsConserved'
  BY <1>3, <1>4 DEF Activate, Accounting, SlotsConserved, connVars
<1>10. active + 1 <= MaxConnections
  BY <1>4, <1>5, <1>6, HoldersFinite, ClientAssumption
  DEF Accounting, SlotsConserved
<1>11. PendingBelow'
  <2>1. \A d \in Callers : newValue'[d] <= highWater'
    <3> SUFFICES ASSUME NEW d \in Callers PROVE newValue'[d] <= highWater'
      OBVIOUS
    <3>1. newValue[d] <= highWater /\ newValue[d] \in Int
      BY DEF Accounting, PendingBelow, ClientTypeOK
    <3> QED
      BY <1>6, <3>1 DEF Activate, Accounting, ClientTypeOK
  <2> QED
    BY <1>6, <2>1 DEF Activate, PendingBelow
<1>12. PeakExact'
  <2>1. peak \in Nat /\ peak <= highWater /\ highWater <= MaxConnections
    BY DEF Accounting, ClientTypeOK, PeakExact
  <2>2. peak' <= highWater' /\ highWater' <= MaxConnections
    BY <1>6, <1>10, <2>1, ClientAssumption DEF Activate
  <2>3. CASE active + 1 > highWater
    <3>1. pc'[c] = "peak" /\ newValue'[c] = highWater'
      BY <1>1, <1>2, <1>7, <2>3 DEF Activate
    <3> QED
      BY <2>2, <3>1 DEF PeakExact
  <2>4. CASE ~(active + 1 > highWater)
    <3>1. highWater' = highWater /\ peak' = peak
      BY <2>4 DEF Activate
    <3>2. CASE peak = highWater
      BY <2>2, <3>1, <3>2 DEF PeakExact
    <3>3. CASE peak # highWater
      <4>1. PICK d \in Callers : pc[d] = "peak" /\ newValue[d] = highWater
        BY <3>3 DEF Accounting, PeakExact
      <4>2. d # c
        BY <4>1 DEF Activate
      <4>3. pc'[d] = "peak" /\ newValue'[d] = highWater'
        BY <1>1, <1>2, <3>1, <4>1, <4>2 DEF Activate, Accounting, ClientTypeOK
      <4> QED
        BY <2>2, <4>3 DEF PeakExact
    <3> QED
      BY <3>2, <3>3
  <2> QED
    BY <2>3, <2>4
<1> QED
  BY <1>8, <1>9, <1>11, <1>12 DEF Accounting

(* The peak update of an increment or a decrement, reduced to what it does *)
(* with the value the caller holds.                                        *)
LEMMA PeakUpdateAccounting ==
    ASSUME Accounting, NEW c \in Callers, NEW place \in Places,
           pc[c] \in {"peak", "settle"}, place # "peak",
           GoTo(c, place),
           (pc[c] \in ActivePlaces) <=> (place \in ActivePlaces),
           place \in HoldingPlaces,
           peak' = IF newValue[c] > peak THEN newValue[c] ELSE peak,
           newValue' = [newValue EXCEPT ![c] = 0],
           UNCHANGED <<connVars, active, highWater>>
    PROVE  Accounting'
<1>1. pc \in [Callers -> Places]
  BY CallerTypes DEF Accounting
<1>2. CallTypes' /\ pc' = [pc EXCEPT ![c] = place]
  BY GoToTypes DEF Accounting
<1>3. Holding' = Holding
  BY <1>1, <1>2, SameHolders DEF HoldingPlaces, ActivePlaces
<1>4. Activated' = Activated
  BY <1>1, <1>2, SameActivated
<1>5. /\ peak \in Nat /\ highWater \in Nat /\ peak <= highWater
      /\ newValue \in [Callers -> Int] /\ newValue[c] <= highWater
  BY DEF Accounting, ClientTypeOK, PeakExact, PendingBelow
<1>6. peak' \in Nat /\ peak' <= highWater' /\ newValue' \in [Callers -> Int]
  BY <1>5
<1>7. ClientTypeOK'
  BY <1>2, <1>6 DEF Accounting, ClientTypeOK, CallTypes, Places, connVars
<1>8. SlotsConserved'
  BY <1>3, <1>4 DEF Accounting, SlotsConserved, connVars
<1>9. PendingBelow'
  <2>1. \A d \in Callers : newValue'[d] <= highWater'
    BY <1>5 DEF Accounting, PendingBelow
  <2> QED
    BY <2>1 DEF Accounting, PendingBelow
<1>10. \/ peak' = highWater'
       \/ \E d \in Callers : pc'[d] = "peak" /\ newValue'[d] = highWater'
  <2>1. CASE peak = highWater
    BY <1>5, <2>1
  <2>2. CASE peak # highWater
    <3>1. PICK d \in Callers : pc[d] = "peak" /\ newValue[d] = highWater
      BY <2>2 DEF Accounting, PeakExact
    <3>2. CASE d = c
      BY <1>5, <3>1, <3>2
    <3>3. CASE d # c
      BY <1>1, <1>2, <1>5, <3>1, <3>3
    <3> QED
      BY <3>2, <3>3
  <2> QED
    BY <2>1, <2>2
<1>11. PeakExact'
  BY <1>6, <1>10 DEF Accounting, PeakExact
<1> QED
  BY <1>7, <1>8, <1>9, <1>11 DEF Accounting

(* The gauge falls.                                                        *)
LEMMA DeactivateAccounting ==
    ASSUME Accounting, NEW c \in Callers, Deactivate(c)
    PROVE  Accounting'
<1>1. pc \in [Callers -> Places] /\ "settle" \in Places
  BY CallerTypes DEF Accounting, Places
<1>2. CallTypes' /\ pc' = [pc EXCEPT ![c] = "settle"]
  BY <1>1, GoToTypes DEF Deactivate, Accounting
<1>3. Holding' = Holding
  BY <1>1, <1>2, SameHolders DEF Deactivate, HoldingPlaces, ActivePlaces
<1>4. Cardinality(Activated') = Cardinality(Activated) - 1
  BY <1>1, <1>2, OneLessActive DEF Deactivate, ActivePlaces
<1>5. /\ active \in Int /\ highWater \in Nat /\ active <= highWater
      /\ newValue \in [Callers -> Int]
  BY DEF Accounting, ClientTypeOK, PendingBelow
<1>6. newValue' \in [Callers -> Int]
  BY <1>5 DEF Deactivate
<1>7. ClientTypeOK'
  BY <1>2, <1>5, <1>6
  DEF Deactivate, Accounting, ClientTypeOK, CallTypes, Places, connVars
<1>8. SlotsConserved'
  BY <1>3, <1>4 DEF Deactivate, Accounting, SlotsConserved, connVars
<1>9. PendingBelow'
  <2>1. active' <= highWater' /\ active - 1 <= highWater
    BY <1>5 DEF Deactivate
  <2>2. \A d \in Callers : newValue'[d] <= highWater'
    BY <1>5, <2>1 DEF Deactivate, Accounting, PendingBelow
  <2> QED
    BY <2>1, <2>2 DEF PendingBelow
<1>10. PeakExact'
  <2>1. \A d \in Callers : pc[d] = "peak" =>
           pc'[d] = "peak" /\ newValue'[d] = newValue[d]
    BY <1>1, <1>2, <1>5 DEF Deactivate
  <2> QED
    BY <2>1 DEF Deactivate, Accounting, PeakExact
<1> QED
  BY <1>7, <1>8, <1>9, <1>10 DEF Accounting

(* The slot comes back.                                                    *)
LEMMA ReturnSlotAccounting ==
    ASSUME Accounting, NEW c \in Callers, ReturnSlot(c)
    PROVE  Accounting'
<1>1. pc \in [Callers -> Places]
  BY CallerTypes DEF Accounting
<1>2. PICK place \in {"idle", "check", "store"} :
         CallTypes' /\ pc' = [pc EXCEPT ![c] = place]
  BY AfterRequestMoves DEF ReturnSlot, Accounting
<1>3. Cardinality(Holding') = Cardinality(Holding) - 1
  BY <1>1, <1>2, OneLessHolder DEF ReturnSlot, HoldingPlaces, ActivePlaces
<1>4. Activated' = Activated
  BY <1>1, <1>2, SameActivated DEF ReturnSlot, ActivePlaces
<1>5. slots' \in 0 .. MaxConnections
  BY ClientAssumption DEF Accounting, ClientTypeOK, ReturnSlot
<1>6. ClientTypeOK'
  BY <1>2, <1>5
  DEF ReturnSlot, Accounting, ClientTypeOK, CallTypes, Places, gaugeVars
<1>7. SlotsConserved'
  BY <1>3, <1>4, HoldersFinite, ClientAssumption
  DEF ReturnSlot, Accounting, ClientTypeOK, SlotsConserved, gaugeVars
<1>8. PeakExact'
  BY <1>1, <1>2 DEF ReturnSlot, Accounting, PeakExact, gaugeVars
<1> QED
  BY <1>6, <1>7, <1>8 DEF ReturnSlot, Accounting, PendingBelow, gaugeVars

-----------------------------------------------------------------------------
(* The other steps of a call move it between places of the same kind.      *)
LEMMA MovesAccounting ==
    ASSUME Accounting, RetryBudget, NEW c \in Callers,
           \/ \E o \in Calls : BeginCall(c, o)
           \/ CheckOpen(c) \/ AcquireRefused(c) \/ AcquireCancelled(c)
           \/ RateLimit(c) \/ RequestSucceeds(c) \/ RequestFails(c)
           \/ Backoff(c) \/ FillCache(c)
    PROVE  Accounting'
<1> USE DEF Accounting
<1>t. CallTypes
  BY CallerTypes DEF CallTypes
<1>p. /\ {"idle", "check", "acquire", "store"} \subseteq Places \ HoldingPlaces
      /\ {"limit", "request", "backoff", "deactivate"} \subseteq
            (Places \cap ActivePlaces) \ {"peak"}
      /\ ActivePlaces \subseteq HoldingPlaces
  BY DEF Places, HoldingPlaces, ActivePlaces
<1>a. ASSUME AfterRequest(c), pc[c] \in {"check", "acquire"},
             UNCHANGED <<connVars, gaugeVars>>
      PROVE  Accounting'
  <2>1. PICK place \in {"idle", "check", "store"} :
           CallTypes' /\ pc' = [pc EXCEPT ![c] = place]
    BY <1>a, AfterRequestMoves
  <2>2. /\ place \in Places /\ place \notin HoldingPlaces
        /\ place \notin ActivePlaces /\ pc[c] # "peak"
        /\ pc[c] \notin HoldingPlaces /\ pc[c] \notin ActivePlaces
    BY <1>a, <1>p
  <2> QED
    BY <1>a, <2>1, <2>2, MovePreserves
<1>w. ASSUME NEW place \in {"limit", "request", "backoff", "deactivate"},
             pc[c] \in {"limit", "request", "backoff"},
             CallTypes', pc' = [pc EXCEPT ![c] = place],
             UNCHANGED <<connVars, gaugeVars>>
      PROVE  Accounting'
  <2>1. /\ place \in Places /\ place \in HoldingPlaces
        /\ place \in ActivePlaces /\ pc[c] # "peak"
        /\ pc[c] \in HoldingPlaces /\ pc[c] \in ActivePlaces
    BY <1>w, <1>p
  <2> QED
    BY <1>w, <2>1, MovePreserves
<1>g. ASSUME GiveUp(c), pc[c] \in {"request", "backoff"},
             UNCHANGED <<connVars, gaugeVars>>
      PROVE  Accounting'
  BY <1>g, <1>w, GiveUpTypes
<1>1. ASSUME NEW o \in Calls, BeginCall(c, o)
      PROVE  Accounting'
  <2>1. CASE pc' = pc /\ op' = op
    <3>1. pc' = [pc EXCEPT ![c] = "idle"] /\ CallTypes'
      BY <1>1, <1>t, <2>1 DEF BeginCall, CallTypes
    <3>2. pc[c] = "idle" /\ UNCHANGED <<connVars, gaugeVars>>
      BY <1>1 DEF BeginCall
    <3> QED
      BY <1>p, <3>1, <3>2, MovePreserves
  <2>2. CASE pc' = [pc EXCEPT ![c] = "check"] /\ op' = [op EXCEPT ![c] = o]
    <3>1. CallTypes'
      BY <1>1, <1>t, <1>p, <2>2, ClientAssumption DEF BeginCall, CallTypes
    <3>2. pc[c] = "idle" /\ UNCHANGED <<connVars, gaugeVars>>
      BY <1>1 DEF BeginCall
    <3>3. /\ "check" \in Places /\ "check" \notin HoldingPlaces
          /\ "check" \notin ActivePlaces
          /\ pc[c] \notin HoldingPlaces /\ pc[c] \notin ActivePlaces
          /\ pc[c] # "peak"
      BY <1>p, <3>2
    <3> QED
      BY <2>2, <3>1, <3>2, <3>3, MovePreserves
  <2> QED
    BY <1>1, <2>1, <2>2 DEF BeginCall
<1>2. CASE CheckOpen(c)
  <2>1. CASE AfterRequest(c)
    BY <1>a, <1>2, <2>1 DEF CheckOpen
  <2>2. CASE GoTo(c, "acquire")
    <3>1. "acquire" \in Places
      BY <1>p
    <3>2. CallTypes' /\ pc' = [pc EXCEPT ![c] = "acquire"]
      BY <2>2, <3>1, GoToTypes
    <3>3. pc[c] = "check" /\ UNCHANGED <<connVars, gaugeVars>>
      BY <1>2 DEF CheckOpen
    <3>4. /\ "acquire" \notin HoldingPlaces /\ "acquire" \notin ActivePlaces
          /\ pc[c] \notin HoldingPlaces /\ pc[c] \notin ActivePlaces
          /\ pc[c] # "peak"
      BY <1>p, <3>3
    <3> QED
      BY <3>1, <3>2, <3>3, <3>4, MovePreserves
  <2> QED
    BY <1>2, <2>1, <2>2 DEF CheckOpen
<1>3. CASE AcquireRefused(c) \/ AcquireCancelled(c)
  BY <1>a, <1>3 DEF AcquireRefused, AcquireCancelled
<1>4. CASE RateLimit(c)
  <2>1. PICK place \in {"request", "deactivate"} : GoTo(c, place)
    BY <1>4 DEF RateLimit
  <2>2. CallTypes' /\ pc' = [pc EXCEPT ![c] = place]
    BY <1>p, <2>1, GoToTypes
  <2> QED
    BY <1>w, <1>4, <2>2 DEF RateLimit
<1>5. CASE RequestSucceeds(c)
  <2>1. pc' \in [Callers -> Places] /\ pc' = [pc EXCEPT ![c] = "deactivate"]
    BY <1>t, <1>p, <1>5 DEF RequestSucceeds, CallTypes
  <2>2. attempt' \in [Callers -> 0 .. MaxRetries]
    BY <1>t, <1>5, ClientAssumption DEF RequestSucceeds, CallTypes
  <2>3. more' \in [Callers -> 0 .. MaxNetworks]
    BY <1>t, <1>5, ClientAssumption DEF RequestSucceeds, CallTypes
  <2>4. answer' \in [Callers -> Responses \cup {"none"}]
    BY <1>t, <1>5 DEF RequestSucceeds, CallTypes, Responses
  <2>5. CallTypes'
    BY <1>t, <1>5, <2>1, <2>2, <2>3, <2>4 DEF RequestSucceeds, CallTypes
  <2> QED
    BY <1>w, <1>5, <2>1, <2>5 DEF RequestSucceeds
<1>6. CASE RequestFails(c)
  <2>1. CASE GiveUp(c)
    BY <1>g, <1>6, <2>1 DEF RequestFails
  <2>2. CASE GoTo(c, "backoff")
    BY <1>p, <1>w, <1>6, <2>2, GoToTypes DEF RequestFails
  <2> QED
    BY <1>6, <2>1, <2>2 DEF RequestFails
<1>7. CASE Backoff(c)
  <2>1. CASE GiveUp(c)
    BY <1>g, <1>7, <2>1 DEF Backoff
  <2>2. CASE /\ pc' = [pc EXCEPT ![c] = "request"]
             /\ attempt' = [attempt EXCEPT ![c] = @ + 1]
             /\ UNCHANGED <<op, more, answer>>
    <3>1. attempt[c] + 1 \in 0 .. MaxRetries
      BY <1>t, <1>7, ClientAssumption DEF Backoff, RetryBudget, CallTypes
    <3>2. attempt' \in [Callers -> 0 .. MaxRetries]
      BY <1>t, <2>2, <3>1 DEF CallTypes
    <3>3. CallTypes'
      BY <1>t, <1>p, <2>2, <3>2 DEF CallTypes
    <3> QED
      BY <1>w, <1>7, <2>2, <3>3 DEF Backoff
  <2> QED
    BY <1>7, <2>1, <2>2 DEF Backoff
<1>8. CASE FillCache(c)
  <2>1. CallTypes' /\ pc' = [pc EXCEPT ![c] = "idle"]
    BY <1>8, LeaveTypes DEF FillCache
  <2>2. pc[c] = "store" /\ UNCHANGED <<connVars, gaugeVars>>
    BY <1>8 DEF FillCache
  <2>3. /\ "idle" \in Places /\ "idle" \notin HoldingPlaces
        /\ "idle" \notin ActivePlaces /\ pc[c] # "peak"
        /\ pc[c] \notin HoldingPlaces /\ pc[c] \notin ActivePlaces
    BY <1>p, <2>2
  <2> QED
    BY <2>1, <2>2, <2>3, MovePreserves
<1> QED
  BY <1>1, <1>2, <1>3, <1>4, <1>5, <1>6, <1>7, <1>8

(* The steps that are not a caller's leave the connections alone.          *)
LEMMA EnvironmentAccounting ==
    ASSUME Accounting, InvalidateCache \/ Close \/ CloseCancel \/ CacheStep
    PROVE  Accounting'
<1>1. pc' = pc /\ slots' = slots /\ UNCHANGED gaugeVars
  BY DEF InvalidateCache, Close, CloseCancel, CacheStep, connVars, callVars
<1>2. /\ closed' \in BOOLEAN /\ cancelled' \in BOOLEAN
  BY Zenon DEF Accounting, ClientTypeOK, InvalidateCache, Close, CloseCancel,
               CacheStep, connVars
<1>3. answer' \in [Callers -> Responses \cup {"none"}]
  BY DEF Accounting, ClientTypeOK, Responses, InvalidateCache, Close,
         CloseCancel, CacheStep, callVars
<1>4. UNCHANGED <<op, attempt, more>>
  BY DEF InvalidateCache, Close, CloseCancel, CacheStep, callVars
<1>5. ClientTypeOK'
  BY <1>1, <1>2, <1>3, <1>4 DEF Accounting, ClientTypeOK, gaugeVars
<1>6. Holding' = Holding /\ Activated' = Activated
  BY <1>1 DEF Holding, Activated
<1> QED
  BY <1>1, <1>5, <1>6
  DEF Accounting, SlotsConserved, PeakExact, PendingBelow, gaugeVars

(* The retry budget is kept by every step.                                 *)
LEMMA RetryBudgetStep ==
    ASSUME Accounting, RetryBudget, Next
    PROVE  RetryBudget'
<1>t. CallTypes
  BY CallerTypes DEF Accounting, CallTypes
<1> USE DEF RetryBudget, CallTypes
<1>1. CASE InvalidateCache \/ Close \/ CloseCancel \/ CacheStep
  BY <1>1 DEF InvalidateCache, Close, CloseCancel, CacheStep, callVars
<1>2. ASSUME NEW c \in Callers,
             \/ \E o \in Calls : BeginCall(c, o)
             \/ CallStep(c) \/ AcquireCancelled(c)
      PROVE  RetryBudget'
  <2>a. ASSUME AfterRequest(c) PROVE RetryBudget'
    BY <1>t, <2>a DEF AfterRequest, Leave, GoTo
  <2>g. ASSUME NEW place, place # "backoff", GoTo(c, place)
        PROVE  RetryBudget'
    BY <1>t, <2>g DEF GoTo
  <2>1. CASE \E o \in Calls : BeginCall(c, o)
    BY <1>t, <2>1 DEF BeginCall
  <2>2. CASE CheckOpen(c) \/ AcquireRefused(c) \/ AcquireCancelled(c)
             \/ ReturnSlot(c)
    BY <2>a, <2>g, <2>2
    DEF CheckOpen, AcquireRefused, AcquireCancelled, ReturnSlot
  <2>3. CASE AcquireSlot(c) \/ Activate(c) \/ RecordPeak(c) \/ RateLimit(c)
             \/ Deactivate(c) \/ RecordDrop(c)
    BY <2>g, <2>3
    DEF AcquireSlot, Activate, RecordPeak, RateLimit, Deactivate, RecordDrop
  <2>4. CASE RequestSucceeds(c)
    BY <1>t, <2>4 DEF RequestSucceeds
  <2>5. CASE RequestFails(c)
    BY <1>t, <2>5 DEF RequestFails, GiveUp, GoTo
  <2>6. CASE Backoff(c)
    BY <1>t, <2>6 DEF Backoff, GiveUp
  <2>7. CASE FillCache(c)
    BY <1>t, <2>7 DEF FillCache, Leave
  <2> QED
    BY <1>2, <2>1, <2>2, <2>3, <2>4, <2>5, <2>6, <2>7 DEF CallStep
<1> QED
  BY <1>1, <1>2 DEF Next

-----------------------------------------------------------------------------
(* Every step of the client preserves the invariant.                       *)
LEMMA NextIInv == IInv /\ [Next]_vars => IInv'
<1> SUFFICES ASSUME IInv, [Next]_vars PROVE IInv'
  OBVIOUS
<1> USE DEF IInv
<1>1. CASE UNCHANGED vars
  BY <1>1 DEF vars, connVars, gaugeVars, callVars, Accounting, ClientTypeOK,
              SlotsConserved, PeakExact, PendingBelow, RetryBudget, Holding,
              Activated
<1>2. CASE Next
  <2>1. RetryBudget'
    BY <1>2, RetryBudgetStep
  <2>2. ASSUME NEW c \in Callers,
               \/ \E o \in Calls : BeginCall(c, o)
               \/ CallStep(c) \/ AcquireCancelled(c)
        PROVE  Accounting'
    <3>1. CASE RecordPeak(c)
      <4>1. "limit" \in Places /\ "limit" \in HoldingPlaces
            /\ "limit" \in ActivePlaces /\ "peak" \in ActivePlaces
        BY DEF Places, HoldingPlaces, ActivePlaces
      <4> QED
        BY <3>1, <4>1, PeakUpdateAccounting DEF RecordPeak
    <3>2. CASE RecordDrop(c)
      <4>1. "return" \in Places /\ "return" \in HoldingPlaces
            /\ "return" \notin ActivePlaces /\ "settle" \notin ActivePlaces
        BY DEF Places, HoldingPlaces, ActivePlaces
      <4> QED
        BY <3>2, <4>1, PeakUpdateAccounting DEF RecordDrop
    <3> QED
      BY <2>2, <3>1, <3>2, AcquireSlotAccounting, ActivateAccounting,
         DeactivateAccounting, ReturnSlotAccounting, MovesAccounting
      DEF CallStep
  <2> QED
    BY <1>2, <2>1, <2>2, EnvironmentAccounting DEF Next
<1> QED
  BY <1>1, <1>2

(* The invariant holds in every reachable state.                           *)
THEOREM Inductive == Spec => []IInv
<1>1. Init => IInv
  BY InitAccounting DEF Init, IInv, RetryBudget
<1> QED
  BY <1>1, NextIInv, PTL DEF Spec

(* No path out of executeWithRateLimit leaks or invents a connection slot, *)
(* whatever the number of callers and slots.                               *)
THEOREM NoSlotLeaks == Spec => []SlotsConserved
<1>1. IInv => SlotsConserved
  BY DEF IInv, Accounting
<1> QED
  BY <1>1, Inductive, PTL

(* PeakConnections misses no peak although UpdateActiveConnections records *)
(* it apart from the add, and never exceeds MaxConnections.                *)
THEOREM PeakNeverMissed == Spec => []PeakExact
<1>1. IInv => PeakExact
  BY DEF IInv, Accounting
<1> QED
  BY <1>1, Inductive, PTL

(* A caller's step out of Quiet stays in it: the closed flag turns away    *)
(* every call that reaches executeWithRateLimit.                           *)
LEMMA QuietStep == IInv /\ [Next]_vars => (Quiet => Quiet')
<1> SUFFICES ASSUME IInv, [Next]_vars, Quiet PROVE Quiet'
  OBVIOUS
<1>t. pc \in [Callers -> Places]
  BY CallerTypes DEF IInv, Accounting
<1>o. \A d \in Callers : pc[d] \notin HoldingPlaces \cup {"acquire"}
  BY DEF Quiet, Holding, HoldingPlaces
<1>q. closed /\ (\A d \in Callers : pc'[d] \notin HoldingPlaces \cup {"acquire"})
      /\ closed' => Quiet'
  BY DEF Quiet, Holding, HoldingPlaces
<1>s. {"idle", "check", "store"} \cap (HoldingPlaces \cup {"acquire"}) = {}
  BY DEF HoldingPlaces, ActivePlaces
<1>1. CASE pc' = pc /\ closed'
  BY <1>1, <1>o, <1>q DEF Quiet
<1>2. ASSUME NEW c \in Callers, NEW place \in {"idle", "check", "store"},
             pc' = [pc EXCEPT ![c] = place], closed' = closed
      PROVE  Quiet'
  <2>1. \A d \in Callers : pc'[d] \notin HoldingPlaces \cup {"acquire"}
    BY <1>t, <1>o, <1>s, <1>2
  <2> QED
    BY <1>q, <1>2, <2>1 DEF Quiet
<1>3. CASE UNCHANGED vars
  BY <1>1, <1>3 DEF vars, connVars, callVars, Quiet
<1>4. CASE InvalidateCache \/ Close \/ CloseCancel \/ CacheStep
  BY <1>1, <1>4
  DEF InvalidateCache, Close, CloseCancel, CacheStep, connVars, callVars, Quiet
<1>5. ASSUME NEW c \in Callers, NEW o \in Calls, BeginCall(c, o)
      PROVE  Quiet'
  BY <1>1, <1>2, <1>5 DEF BeginCall, connVars, Quiet
<1>6. ASSUME NEW c \in Callers, CallStep(c) \/ AcquireCancelled(c)
      PROVE  Quiet'
  <2>1. pc[c] \notin HoldingPlaces \cup {"acquire"}
    BY <1>o
  <2>2. CheckOpen(c) \/ FillCache(c)
    BY <1>6, <2>1
    DEF CallStep, AcquireSlot, AcquireRefused, AcquireCancelled, Activate,
        RecordPeak, RateLimit, RequestSucceeds, RequestFails, Backoff,
        Deactivate, RecordDrop, ReturnSlot, HoldingPlaces, ActivePlaces
  <2>3. CASE CheckOpen(c)
    <3>1. AfterRequest(c) /\ closed' = closed
      BY <2>3 DEF CheckOpen, Quiet, connVars
    <3> QED
      BY <1>2, <3>1, AfterRequestMoves DEF IInv, Accounting
  <2>4. CASE FillCache(c)
    BY <1>2, <2>4 DEF FillCache, Leave, connVars
  <2> QED
    BY <2>2, <2>3, <2>4
<1> QED
  BY <1>3, <1>4, <1>5, <1>6 DEF Next

(* Once the client is closed and the calls past the check have ended, no   *)
(* connection is ever taken again.                                         *)
THEOREM ClosedStaysQuiet == Spec => ClosedClientQuiet
<1>1. IInv /\ [Next]_vars => [Quiet => Quiet']_vars
  BY QuietStep
<1> QED
  BY <1>1, Inductive, PTL DEF Spec, ClosedClientQuiet

-----------------------------------------------------------------------------
(* The cache.  Its entries have distinct ages.                             *)
Aged ==
    /\ \A j, k \in Present : j # k => <<j, k>> \in older \/ <<k, j>> \in older
    /\ \A j, k \in Present : <<j, k>> \in older => <<k, j>> \notin older
    /\ \A i, j, k \in Present :
          <<i, j>> \in older /\ <<j, k>> \in older => <<i, k>> \in older

(* A call that fills the cache has a response to put there.                *)
StoreReady ==
    \A c \in Callers : pc[c] = "store" => op[c] \in Cached /\ answer[c] \in Responses

CacheInv == CacheTypeOK /\ Aged /\ CacheBound

LEMMA PresentFinite == IsFiniteSet(Present) /\ Cardinality(Present) \in Nat
<1>1. IsFiniteSet(Present)
  BY FS_Subset, CacheAssumption DEF Present
<1> QED
  BY <1>1, FS_CardinalityType

(* evictOldest finds one entry, the oldest, in any cache that has some:    *)
(* the entry with the least set of entries before it.                      *)
LEMMA OneOldest ==
    ASSUME Aged, Present # {}
    PROVE  \E k \in Present : Oldest = {k}
<1> DEFINE Before(k) == {j \in Present : <<j, k>> \in older}
           Befores == {Before(k) : k \in Present}
           Less == StrictSubsetOrdering(Present)
<1>1. Befores \subseteq FiniteSubsetsOf(Present) /\ Befores # {}
  <2>1. \A k \in Present : Before(k) \in SUBSET Present
    OBVIOUS
  <2>2. \A k \in Present : IsFiniteSet(Before(k))
    BY <2>1, PresentFinite, FS_Subset
  <2> QED
    BY <2>1, <2>2 DEF FiniteSubsetsOf
<1>2. IsWellFoundedOn(Less, FiniteSubsetsOf(Present))
  BY FS_StrictSubsetOrderingWellFounded
<1>3. \E b \in Befores : \A a \in Befores : ~(<<a, b>> \in Less)
  <2> HIDE DEF Befores, Less
  <2> QED
    BY <1>1, <1>2, WFMin
<1>4. PICK k \in Present : \A j \in Present : ~(<<Before(j), Before(k)>> \in Less)
  BY <1>3
<1>5. ASSUME NEW j \in Present, <<j, k>> \in older PROVE FALSE
  <2>1. Before(j) \subseteq Before(k)
    BY <1>5 DEF Aged
  <2>2. j \in Before(k) /\ j \notin Before(j)
    BY <1>5 DEF Aged
  <2>3. <<Before(j), Before(k)>> \in Less
    BY <2>1, <2>2 DEF StrictSubsetOrdering
  <2> QED
    BY <1>4, <2>3
<1>6. k \in Oldest
  BY <1>5 DEF Oldest
<1>7. \A i \in Oldest : i = k
  BY <1>6 DEF Oldest, Aged
<1> QED
  BY <1>6, <1>7

LEMMA InitCache == Init => CacheInv /\ StoreReady
<1> SUFFICES ASSUME Init PROVE CacheInv /\ StoreReady
  OBVIOUS
<1>1. entries = [k \in Keys |-> NoEntry] /\ older = {}
  BY DEF Init, CacheInit
<1>2. Present = {}
  BY <1>1 DEF Present
<1>3. CacheBound
  BY <1>2, FS_EmptySet, CacheAssumption DEF CacheBound
<1>4. StoreReady
  BY DEF Init, StoreReady
<1> QED
  BY <1>1, <1>2, <1>3, <1>4 DEF CacheInv, CacheTypeOK, Aged

(* Dropping entries keeps the ages of the others.                          *)
LEMMA FewerEntries ==
    ASSUME CacheInv, NEW kept \in SUBSET Present, Present' = kept,
           entries' \in [Keys -> Entry \cup {NoEntry}], older' = Among(kept)
    PROVE  CacheInv'
<1>1. CacheTypeOK' /\ Aged'
  BY DEF CacheInv, CacheTypeOK, Aged, Among
<1>2. Cardinality(kept) <= Cardinality(Present) /\ Cardinality(kept) \in Nat
  BY PresentFinite, FS_Subset, FS_CardinalityType
<1>3. CacheBound'
  BY <1>2, PresentFinite, CacheAssumption DEF CacheInv, CacheBound
<1> QED
  BY <1>1, <1>3 DEF CacheInv

LEMMA SetKeepsCache ==
    ASSUME CacheInv, NEW k \in Keys, NEW data \in Responses, Set(k, data)
    PROVE  CacheInv'
<1> DEFINE kept == Present \ (evictOldest \cup {k})
           left == Present \ evictOldest
           n == Cardinality(Present)
<1>1. /\ entries' = [j \in Keys |-> IF j = k THEN [data |-> data, expired |-> FALSE]
                                    ELSE IF j \in evictOldest THEN NoEntry ELSE entries[j]]
      /\ older' = Among(kept) \cup (kept \X {k})
  BY DEF Set
<1>2. [data |-> data, expired |-> FALSE] \in Entry
  <2>1. FALSE \in BOOLEAN
    OBVIOUS
  <2> QED
    BY <2>1 DEF Entry
<1>3. entries' \in [Keys -> Entry \cup {NoEntry}]
  BY <1>1, <1>2 DEF CacheInv, CacheTypeOK
<1>4. Present' = kept \cup {k}
  BY <1>1, <1>2, CacheAssumption DEF Present
<1>5. CacheTypeOK'
  BY <1>1, <1>3, <1>4 DEF CacheTypeOK, Among
<1>6. Aged'
  <2>1. k \notin kept /\ kept \subseteq Present
    OBVIOUS
  <2> HIDE DEF kept
  <2>2. \A i, j \in kept : <<i, j>> \in older' <=> <<i, j>> \in older
    BY <1>1, <2>1 DEF Among
  <2>3. \A i \in kept : <<i, k>> \in older' /\ <<k, i>> \notin older'
    BY <1>1, <2>1 DEF Among
  <2>4. <<k, k>> \notin older'
    BY <1>1, <2>1 DEF Among
  <2>5. /\ \A i, j \in kept : i # j => <<i, j>> \in older \/ <<j, i>> \in older
        /\ \A i, j \in kept : <<i, j>> \in older => <<j, i>> \notin older
        /\ \A h, i, j \in kept :
              <<h, i>> \in older /\ <<i, j>> \in older => <<h, j>> \in older
    BY <2>1 DEF CacheInv, Aged
  <2>6. \A i, j \in Present' : i # j => <<i, j>> \in older' \/ <<j, i>> \in older'
    BY <1>4, <2>2, <2>3, <2>5
  <2>7. \A i, j \in Present' : <<i, j>> \in older' => <<j, i>> \notin older'
    BY <1>4, <2>2, <2>3, <2>4, <2>5
  <2>8. \A h, i, j \in Present' :
           <<h, i>> \in older' /\ <<i, j>> \in older' => <<h, j>> \in older'
    BY <1>4, <2>2, <2>3, <2>4, <2>5
  <2> QED
    BY <2>6, <2>7, <2>8 DEF Aged
<1>7. CacheBound'
  <2>1. n \in Nat /\ IsFiniteSet(Present)
    BY PresentFinite
  <2>2. IsFiniteSet(left) /\ Cardinality(left) \in Nat
    BY <2>1, FS_Subset, FS_CardinalityType
  <2>3. Cardinality(Present') <= Cardinality(left) + 1 /\ Cardinality(Present') \in Nat
    <3>1. Present' = left \cup {k}
      BY <1>4
    <3> HIDE DEF left
    <3>2. /\ IsFiniteSet(left \cup {k})
          /\ Cardinality(left \cup {k}) =
                IF k \in left THEN Cardinality(left) ELSE Cardinality(left) + 1
      BY <2>2, FS_AddElement
    <3> QED
      BY <2>2, <3>1, <3>2
  <2>4. CASE n < MaxEntries
    <3>1. evictOldest = {}
      BY <2>1, <2>4, CacheAssumption DEF evictOldest
    <3>2. left = Present
      BY <3>1
    <3>3. Cardinality(left) = n
      BY <3>2
    <3> HIDE DEF n, left
    <3> QED
      BY <2>1, <2>2, <2>3, <2>4, <3>3, CacheAssumption DEF CacheBound
  <2>5. CASE n >= MaxEntries /\ Present # {}
    <3>1. PICK o \in Present : evictOldest = {o}
      BY <2>5, OneOldest DEF evictOldest, CacheInv
    <3>2. left = Present \ {o}
      BY <3>1
    <3>3. Cardinality(left) = n - 1
      <4>1. Cardinality(Present \ {o}) = Cardinality(Present) - 1
        BY <2>1, FS_RemoveElement
      <4> QED
        BY <3>2, <4>1
    <3>4. n <= (IF MaxEntries = 0 THEN 1 ELSE MaxEntries)
      BY DEF CacheInv, CacheBound
    <3> HIDE DEF n, left
    <3> QED
      BY <2>1, <2>2, <2>3, <3>3, <3>4, CacheAssumption DEF CacheBound
  <2>6. CASE n >= MaxEntries /\ Present = {}
    <3>1. n = 0 /\ left = {} /\ Cardinality(left) = 0
      BY <2>6, FS_EmptySet
    <3>2. MaxEntries = 0
      BY <2>6, <3>1, CacheAssumption
    <3> HIDE DEF n, left
    <3> QED
      BY <2>2, <2>3, <3>1, <3>2 DEF CacheBound
  <2> QED
    BY <2>1, <2>4, <2>5, <2>6, CacheAssumption
<1> QED
  BY <1>5, <1>6, <1>7 DEF CacheInv

(* Every step of the client keeps the cache in order.                      *)
LEMMA NextCache ==
    ASSUME CacheInv, StoreReady, ClientTypeOK, [Next]_vars
    PROVE  CacheInv' /\ StoreReady'
<1>t. CallTypes
  BY CallerTypes DEF CallTypes
<1>u. ASSUME UNCHANGED cacheVars PROVE CacheInv'
  <2>1. Present' = Present
    BY <1>u DEF cacheVars, Present
  <2> QED
    BY <1>u, <2>1 DEF cacheVars, CacheInv, CacheTypeOK, Aged, CacheBound
<1>1. CASE InvalidateCache
  <2>1. /\ entries' = [k \in Keys |-> NoEntry] /\ older' = {}
        /\ answer' = [c \in Callers |-> IF answer[c] = "none" THEN "none" ELSE "stale"]
        /\ UNCHANGED <<pc, op>>
    BY <1>1 DEF InvalidateCache, InvalidateAll
  <2>2. Present' = {} /\ older' = Among({})
    BY <2>1 DEF Present, Among
  <2>3. CacheInv'
    BY <2>1, <2>2, FewerEntries
  <2>4. StoreReady'
    BY <2>1 DEF StoreReady, Responses
  <2> QED
    BY <2>3, <2>4
<1>2. CASE Close \/ CloseCancel
  BY <1>u, <1>2 DEF Close, CloseCancel, callVars, StoreReady
<1>3. CASE CacheStep
  <2>1. StoreReady'
    BY <1>3 DEF CacheStep, callVars, StoreReady
  <2>2. CASE cleanupExpired
    <3> DEFINE kept == {k \in Keys : Found(k)}
    <3>1. entries' \in [Keys -> Entry \cup {NoEntry}]
      BY <2>2 DEF cleanupExpired, CacheInv, CacheTypeOK
    <3>2. Present' = kept /\ kept \in SUBSET Present
      BY <2>2 DEF cleanupExpired, Present, Found
    <3>3. older' = Among(kept)
      BY <2>2 DEF cleanupExpired
    <3> HIDE DEF kept
    <3>4. CacheInv'
      BY <3>1, <3>2, <3>3, FewerEntries
    <3> QED
      BY <2>1, <3>4
  <2>3. ASSUME NEW k \in Keys, Expire(k) PROVE CacheInv'
    <3>1. /\ entries[k] \in Entry /\ entries[k] # NoEntry
          /\ entries' = [entries EXCEPT ![k].expired = TRUE] /\ older' = older
      BY <2>3 DEF Expire, Found, CacheInv, CacheTypeOK
    <3>2. entries'[k] \in Entry
      <4>1. TRUE \in BOOLEAN
        OBVIOUS
      <4>2. entries'[k] = [entries[k] EXCEPT !.expired = TRUE]
        BY <3>1 DEF CacheInv, CacheTypeOK
      <4> QED
        BY <3>1, <4>1, <4>2 DEF Entry
    <3>3. /\ entries' \in [Keys -> Entry \cup {NoEntry}]
          /\ \A j \in Keys \ {k} : entries'[j] = entries[j]
      <4>1. DOMAIN entries = Keys
        BY DEF CacheInv, CacheTypeOK
      <4>2. entries' = [j \in Keys |-> IF j = k THEN entries'[k] ELSE entries[j]]
        BY <3>1, <4>1
      <4> QED
        BY <3>2, <4>2 DEF CacheInv, CacheTypeOK
    <3>4. Present' = Present
      BY <3>1, <3>2, <3>3, CacheAssumption DEF Present
    <3> QED
      BY <3>1, <3>3, <3>4 DEF CacheInv, CacheTypeOK, Aged, CacheBound
  <2> QED
    BY <1>3, <2>1, <2>2, <2>3 DEF CacheStep
<1>4. ASSUME NEW c \in Callers,
             \/ \E o \in Calls : BeginCall(c, o)
             \/ CallStep(c) \/ AcquireCancelled(c)
      PROVE  CacheInv' /\ StoreReady'
  <2>1. CASE FillCache(c)
    <3>1. /\ pc[c] = "store" /\ Set(op[c], answer[c]) /\ Leave(c)
      BY <2>1 DEF FillCache
    <3>2. op[c] \in Keys /\ answer[c] \in Responses
      BY <3>1, ClientAssumption DEF StoreReady
    <3>3. CacheInv'
      BY <3>1, <3>2, SetKeepsCache
    <3>4. StoreReady'
      BY <1>t, <3>1 DEF Leave, StoreReady, CallTypes
    <3> QED
      BY <3>3, <3>4
  <2>2. CASE ~FillCache(c)
    <3>1. UNCHANGED cacheVars
      BY <1>4, <2>2
      DEF CallStep, BeginCall, CheckOpen, AcquireSlot, AcquireRefused, AcquireCancelled,
          Activate, RecordPeak, RateLimit, RequestSucceeds, RequestFails, Backoff,
          Deactivate, RecordDrop, ReturnSlot
    <3> SUFFICES StoreReady'
      BY <1>u, <3>1
    <3>a. ASSUME AfterRequest(c) PROVE StoreReady'
      <4>1. CASE Leave(c)
        BY <1>t, <4>1 DEF Leave, StoreReady, CallTypes
      <4>2. CASE /\ pc' = [pc EXCEPT ![c] = "check"] /\ UNCHANGED <<op, answer>>
        BY <1>t, <4>2 DEF StoreReady, CallTypes
      <4>3. CASE GoTo(c, "store") /\ op[c] \in Cached /\ answer[c] # "none"
        BY <1>t, <4>3 DEF GoTo, StoreReady, CallTypes
      <4> QED
        BY <3>a, <4>1, <4>2, <4>3 DEF AfterRequest
    <3>g. ASSUME NEW place, place # "store", GoTo(c, place) PROVE StoreReady'
      BY <1>t, <3>g DEF GoTo, StoreReady, CallTypes
    <3>d. ASSUME NEW place, place # "store", pc' = [pc EXCEPT ![c] = place],
                 \A d \in Callers \ {c} : op'[d] = op[d] /\ answer'[d] = answer[d]
          PROVE  StoreReady'
      BY <1>t, <3>d DEF StoreReady, CallTypes
    <3>2. CASE \E o \in Calls : BeginCall(c, o)
      <4>1. PICK o \in Calls : BeginCall(c, o)
        BY <3>2
      <4>2. CASE UNCHANGED <<pc, op>>
        BY <4>1, <4>2 DEF BeginCall, StoreReady
      <4>3. CASE pc' = [pc EXCEPT ![c] = "check"] /\ op' = [op EXCEPT ![c] = o]
        BY <1>t, <3>d, <4>1, <4>3 DEF BeginCall, CallTypes
      <4> QED
        BY <4>1, <4>2, <4>3 DEF BeginCall
    <3>3. CASE CheckOpen(c) \/ AcquireRefused(c) \/ AcquireCancelled(c) \/ ReturnSlot(c)
      BY <3>a, <3>g, <3>3 DEF CheckOpen, AcquireRefused, AcquireCancelled, ReturnSlot
    <3>4. CASE AcquireSlot(c) \/ Activate(c) \/ RecordPeak(c) \/ RateLimit(c)
               \/ Deactivate(c) \/ RecordDrop(c)
      BY <3>g, <3>4
      DEF AcquireSlot, Activate, RecordPeak, RateLimit, Deactivate, RecordDrop
    <3>5. CASE RequestSucceeds(c)
      <4>1. /\ pc' = [pc EXCEPT ![c] = "deactivate"] /\ UNCHANGED op
            /\ answer' = answer \/ answer' = [answer EXCEPT ![c] = "fresh"]
        BY <3>5 DEF RequestSucceeds
      <4> QED
        BY <1>t, <3>d, <4>1 DEF CallTypes
    <3>6. CASE RequestFails(c) \/ Backoff(c)
      BY <3>d, <3>6 DEF RequestFails, Backoff, GiveUp, GoTo
    <3> QED
      BY <1>4, <2>2, <3>2, <3>3, <3>4, <3>5, <3>6 DEF CallStep
  <2> QED
    BY <2>1, <2>2
<1>5. CASE UNCHANGED vars
  BY <1>u, <1>5 DEF vars, callVars, StoreReady
<1> QED
  BY <1>1, <1>2, <1>3, <1>4, <1>5 DEF Next

(* The cache is in order throughout.                                       *)
THEOREM CacheInductive == Spec => [](CacheInv /\ StoreReady)
<1>1. (CacheInv /\ StoreReady) /\ IInv /\ [Next]_vars => (CacheInv /\ StoreReady)'
  BY NextCache DEF IInv, Accounting
<1> QED
  BY InitCache, Inductive, <1>1, PTL DEF Spec

(* The cache never holds more than its limit, for any limit and number of  *)
(* keys: at the limit evictOldest always finds an entry to drop.           *)
THEOREM CacheStaysBounded == Spec => []CacheBound
<1>1. CacheInv => CacheBound
  BY DEF CacheInv
<1> QED
  BY CacheInductive, <1>1, PTL

(* Type correctness of the client and its cache: the semaphore is never    *)
(* overfull, a request is retried at most MaxRetries times, and only the   *)
(* responses of cached operations are stored.                              *)
THEOREM TypeCorrect == Spec => []TypeOK
<1>1. CacheInv /\ IInv => TypeOK
  BY DEF CacheInv, IInv, Accounting, TypeOK
<1> QED
  BY CacheInductive, Inductive, <1>1, PTL
=============================================================================
