--------------------------- MODULE TimingStorage ---------------------------
(***************************************************************************)
(* TimingStorage of internal/diagnostics/timing_storage.go: a circular     *)
(* buffer of measurements with indexes by category, check and worker.      *)
(* Every method runs under ts.mu, so each is one operator.  A measurement  *)
(* is a pointer: its number, with the fields the indexes look at kept in   *)
(* timing, where their owner may still change them.  Durations are left    *)
(* out.                                                                    *)
(***************************************************************************)
EXTENDS Integers, Sequences, FiniteSets, SequencesExt, FiniteSetsExt

CONSTANTS
    Categories,     \* TimingData.Category
    CheckNames,     \* TimingData.CheckName, other than ""
    NoCheck,        \* the empty check name
    Workers,        \* worker IDs; 0 is also what a fresh TimingData holds
    MaxSize,        \* ts.maxSize
    MaxTimings      \* bound: measurements made in all

ASSUME StorageAssumption ==
    /\ MaxSize \in Nat \ {0} /\ MaxTimings \in Nat
    /\ NoCheck \notin CheckNames \cup Categories
    /\ Workers \subseteq Nat /\ IsFiniteSet(Workers)

VARIABLES
    measurements, currentIndex, wrapped,
    byCategory, byCheck, byWorker,
    timing          \* the measurements made so far, as records

storageVars == <<measurements, currentIndex, wrapped, byCategory, byCheck, byWorker>>

Timings == 1..MaxTimings
WorkerIDs == Workers \cup {0}
TimingData == [category : Categories, check : CheckNames \cup {NoCheck}, worker : WorkerIDs]

(* NewTimingStorage, and what Clear goes back to.                          *)
Cleared ==
    /\ measurements' = <<>> /\ currentIndex' = 0 /\ wrapped' = FALSE
    /\ byCategory' = [c \in Categories |-> <<>>]
    /\ byCheck' = [k \in CheckNames |-> <<>>]
    /\ byWorker' = [w \in WorkerIDs |-> <<>>]

StorageInit ==
    /\ measurements = <<>> /\ currentIndex = 0 /\ wrapped = FALSE
    /\ byCategory = [c \in Categories |-> <<>>]
    /\ byCheck = [k \in CheckNames |-> <<>>]
    /\ byWorker = [w \in WorkerIDs |-> <<>>]
    /\ timing = <<>>

addToIndex(index, key, t) ==
    IF key = NoCheck THEN index ELSE [index EXCEPT ![key] = Append(@, t)]

FaultDropsLast(index, key, t) ==
    IF key = NoCheck \/ index[key] = <<>> THEN index
    ELSE [index EXCEPT ![key] = Front(@)]

(* The last entry takes the place of the one removed.                      *)
removeTimingFromSlice(index, key, t) ==
    IF key = NoCheck \/ ~Contains(index[key], t) THEN index
    ELSE LET slice == index[key]
             i == SelectInSeq(slice, LAMBDA e : e = t)
         IN  [index EXCEPT ![key] = Front([slice EXCEPT ![i] = Last(slice)])]

FaultOverwritesNewest(t, data) ==
    LET full == Len(measurements) >= MaxSize
        slot == IF full THEN currentIndex ELSE Len(measurements)
        old == measurements[slot + 1]
        reindex(index, f) ==
            addToIndex(IF full THEN removeTimingFromSlice(index, timing[old][f], old)
                       ELSE index, data[f], t)
    IN  /\ measurements' = IF full THEN [measurements EXCEPT ![slot + 1] = t]
                           ELSE Append(measurements, t)
        /\ currentIndex' = slot
        /\ wrapped' = (wrapped \/ full)
        /\ byCategory' = reindex(byCategory, "category")
        /\ byCheck' = reindex(byCheck, "check")
        /\ byWorker' = reindex(byWorker, "worker")

Store(t, data) ==
    LET full == Len(measurements) >= MaxSize
        slot == IF full THEN (currentIndex + 1) % MaxSize ELSE Len(measurements)
        old == measurements[slot + 1]
        reindex(index, f) ==
            addToIndex(IF full THEN removeTimingFromSlice(index, timing[old][f], old)
                       ELSE index, data[f], t)
    IN  /\ measurements' = IF full THEN [measurements EXCEPT ![slot + 1] = t]
                           ELSE Append(measurements, t)
        /\ currentIndex' = slot
        /\ wrapped' = (wrapped \/ full)
        /\ byCategory' = reindex(byCategory, "category")
        /\ byCheck' = reindex(byCheck, "check")
        /\ byWorker' = reindex(byWorker, "worker")

GetLatest == measurements[currentIndex + 1]

(* GetAll: oldest first.                                                   *)
GetAll ==
    IF wrapped
    THEN LET start == (currentIndex + 1) % MaxSize
         IN  [i \in 1..MaxSize |-> measurements[((start + i - 1) % MaxSize) + 1]]
    ELSE measurements

GetByCategory(c) == byCategory[c]

(* GetStatistics: how many measurements there are, and of each kind.       *)
GetStatistics ==
    LET counts(f, keys) == [k \in keys |->
            Quantify(DOMAIN measurements, LAMBDA i : timing[measurements[i]][f] = k)]
    IN  [Count |-> Len(measurements),
         CategoryCounts |-> counts("category", Categories),
         CheckCounts |-> counts("check", CheckNames),
         WorkerCounts |-> counts("worker", WorkerIDs)]

-----------------------------------------------------------------------------
StorageTypeOK ==
    /\ timing \in Seq(TimingData) /\ Len(timing) <= MaxTimings
    /\ measurements \in Seq(1..Len(timing)) /\ Len(measurements) <= MaxSize
    /\ currentIndex \in 0..MaxSize - 1
    /\ wrapped => Len(measurements) = MaxSize

(* After any sequence of stores, evictions (which shuffle the slices) and  *)
(* clears, GetByCategory returns exactly the stored measurements of a      *)
(* category, each once, and the statistics, taken from the buffer, count   *)
(* what the index holds.  The state is well typed.                         *)
CategoryIndexExact ==
    /\ StorageTypeOK
    /\ \A c \in Categories :
          /\ ToSet(GetByCategory(c)) = {t \in ToSet(measurements) : timing[t].category = c}
          /\ IsInjective(GetByCategory(c))
          /\ GetStatistics.CategoryCounts[c] = Len(GetByCategory(c))

(* Store and Clear implement a log of the last MaxSize measurements, as    *)
(* GetAll shows it.                                                        *)
Recent == INSTANCE BoundedLog WITH
            log <- GetAll, Entries <- Timings, Capacity <- MaxSize
LogImplemented == Recent!LogSpec
=============================================================================
