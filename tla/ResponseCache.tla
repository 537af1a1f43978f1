---------------------------- MODULE ResponseCache ----------------------------
(***************************************************************************)
(* ResponseCache of internal/docker/response_cache.go.  Every method runs  *)
(* under c.mu, and each is an operator here.  The four kinds of responses  *)
(* live under disjoint keys, so the type assertions of the getters never   *)
(* fail.  Of a response the model keeps whether the daemon sent it after   *)
(* the last InvalidateAll ("fresh") or before; expired says that its TTL   *)
(* has passed.  Of the Timestamps only which one is before which is kept.  *)
(* The hit, miss and eviction statistics are left out.                     *)
(***************************************************************************)
EXTENDS Integers, FiniteSets

CONSTANTS
    Keys,           \* the cache keys
    NoEntry,        \* nothing is cached under a key
    MaxEntries      \* c.maxEntries

Responses == {"fresh", "stale"}
Entry == [data : Responses, expired : BOOLEAN]

ASSUME CacheAssumption ==
    /\ IsFiniteSet(Keys)
    /\ MaxEntries \in Nat
    /\ NoEntry \notin Entry

VARIABLES
    entries,        \* c.entries
    older           \* <<j, k>>: the Timestamp of entry j is before that of k

cacheVars == <<entries, older>>

Present == {k \in Keys : entries[k] # NoEntry}

(* What the getters and GetOrCompute accept: present and not expired.      *)
Found(k) == entries[k] # NoEntry /\ ~entries[k].expired

(* The ages of the entries that are left when only keys in kept are.       *)
Among(kept) == older \cap (kept \X kept)

CacheInit ==
    /\ entries = [k \in Keys |-> NoEntry]
    /\ older = {}

Oldest == {k \in Present : \A j \in Present : <<j, k>> \notin older}

(* Seeded fault: the limit is compared with > instead of >=.               *)
FaultEvictsLate == IF Cardinality(Present) > MaxEntries THEN Oldest ELSE {}

(* The key evictOldest drops before a Set: at the limit the oldest entry   *)
(* goes, even when the Set only overwrites another one.                    *)
evictOldest == IF Cardinality(Present) >= MaxEntries THEN Oldest ELSE {}

(* SetContainerList, SetContainerInspect and the tail of GetOrCompute.     *)
Set(k, data) ==
    LET kept == Present \ (evictOldest \cup {k})
    IN  /\ entries' = [j \in Keys |->
                         IF j = k THEN [data |-> data, expired |-> FALSE]
                         ELSE IF j \in evictOldest THEN NoEntry ELSE entries[j]]
        /\ older' = Among(kept) \cup (kept \X {k})

InvalidateAll ==
    /\ entries' = [k \in Keys |-> NoEntry]
    /\ older' = {}

cleanupExpired ==
    /\ entries' = [k \in Keys |-> IF Found(k) THEN entries[k] ELSE NoEntry]
    /\ older' = Among({k \in Keys : Found(k)})

(* The TTL of an entry passes.                                             *)
Expire(k) ==
    /\ Found(k)
    /\ entries' = [entries EXCEPT ![k].expired = TRUE]
    /\ UNCHANGED older

-----------------------------------------------------------------------------
(* Every cache variable has its type.                                      *)
CacheTypeOK ==
    /\ entries \in [Keys -> Entry \cup {NoEntry}]
    /\ older \subseteq Present \X Present

(* The cache never holds more than MaxEntries responses (one, if the limit *)
(* is configured as zero), whatever mix of Sets, overwrites, evictions,    *)
(* expiries and invalidations led there.                                   *)
CacheBound ==
    Cardinality(Present) <= (IF MaxEntries = 0 THEN 1 ELSE MaxEntries)
=============================================================================
