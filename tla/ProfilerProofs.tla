--------------------------- MODULE ProfilerProofs ---------------------------
(***************************************************************************)
(* Safety of the profiler and its timing storage for any capacity, number  *)
(* of workers, starts and resets: the ring buffer implements the bounded   *)
(* log, its index by category is exact, its measurements are counted, and  *)
(* the process dies only after a restart or a Reset.                       *)
(***************************************************************************)
EXTENDS Profiler, FiniteSetTheorems, SequenceTheorems, TLAPS

(* Where the ring stands: filled from the front, and after that turning.   *)
RingShape ==
    /\ wrapped \in BOOLEAN
    /\ ~wrapped => currentIndex = IF measurements = <<>> THEN 0 ELSE Len(measurements) - 1
    /\ IsInjective(measurements)

(* The index of one category holds its stored measurements, each once.     *)
IndexExact ==
    /\ byCategory \in [Categories -> Seq(1..Len(timing))]
    /\ \A c \in Categories :
          /\ ToSet(byCategory[c]) = {t \in ToSet(measurements) : timing[t].category = c}
          /\ IsInjective(byCategory[c])

WorkerTypeOK ==
    /\ upc \in [Workers -> {"idle", "run", "count", "note", "label"}]
    /\ kind \in [Workers -> Kinds]
    /\ totalOperations \in Nat

(* The storage is ahead of the metrics only between the two halves of a    *)
(* Reset.                                                                  *)
Ahead ==
    opc # "swapped" =>
        Len(measurements) <=
            totalOperations + Cardinality({u \in Workers : upc[u] = "count"})

(* Until a restart the one collector goes through its stages once, and     *)
(* until a Reset no one waits for the metrics.                             *)
Lifecycle ==
    /\ starts \in Nat /\ resets \in Nat /\ starting \in Nat
    /\ running \in BOOLEAN /\ stopClosed \in BOOLEAN
    /\ starts <= 1 =>
         starting + (IF running THEN 1 ELSE 0) + (IF stopClosed THEN 1 ELSE 0) <= starts
    /\ resets = 0 => waiters = {} /\ opc \notin {"locked", "swapped"}
    /\ CrashNeedsRestartOrReset

StorageInv == StorageTypeOK /\ RingShape /\ IndexExact
IInv == StorageInv /\ WorkerTypeOK /\ Ahead /\ Lifecycle

-----------------------------------------------------------------------------
(* Arithmetic of the ring.                                                 *)
LEMMA ModBelow ==
    ASSUME NEW M \in Nat \ {0}, NEW x \in Nat, x < M
    PROVE  x % M = x
  OBVIOUS

LEMMA ModOnce ==
    ASSUME NEW M \in Nat \ {0}, NEW x \in Nat, M <= x, x < M + M
    PROVE  x % M = x - M
  OBVIOUS

(* A position, its successor, and the position i places after it.          *)
LEMMA RingStep ==
    ASSUME NEW M \in Nat \ {0}, NEW a \in 0..(M - 1)
    PROVE  /\ (a + 1) % M = IF a + 1 = M THEN 0 ELSE a + 1
           /\ (a + 1) % M \in 0..(M - 1)
           /\ \A i \in 1..M :
                (a + i - 1) % M = IF a + i - 1 < M THEN a + i - 1 ELSE a + i - 1 - M
<1>1. ASSUME NEW x \in Nat, x < M + M
      PROVE  x % M = IF x < M THEN x ELSE x - M
  <2>1. CASE x < M
    BY <2>1, ModBelow
  <2>2. CASE M <= x
    <3>1. x % M = x - M
      BY <2>2, <1>1, ModOnce
    <3>2. ~(x < M)
      BY <2>2
    <3> QED
      BY <3>1, <3>2, Zenon
  <2> QED
    BY <2>1, <2>2
<1>2. (a + 1) % M = IF a + 1 = M THEN 0 ELSE a + 1
  <2>1. a + 1 \in Nat /\ a + 1 < M + M /\ a + 1 <= M
    OBVIOUS
  <2>2. (a + 1) % M = IF a + 1 < M THEN a + 1 ELSE a + 1 - M
    BY <2>1, <1>1
  <2> QED
    BY <2>1, <2>2
<1>3. ASSUME NEW i \in 1..M
      PROVE  (a + i - 1) % M = IF a + i - 1 < M THEN a + i - 1 ELSE a + i - 1 - M
  <2>1. a + i - 1 \in Nat /\ a + i - 1 < M + M
    OBVIOUS
  <2> QED
    BY <2>1, <1>1
<1> QED
  BY <1>2, <1>3

-----------------------------------------------------------------------------
(* What Store does to the ring.                                            *)
Full == Len(measurements) >= MaxSize
Slot == IF Full THEN (currentIndex + 1) % MaxSize ELSE Len(measurements)

LEMMA StoreRing ==
    ASSUME StorageTypeOK, RingShape, NEW t, NEW data, Store(t, data)
    PROVE  /\ measurements \in Seq(1..Len(timing)) /\ Len(measurements) \in Nat
           /\ Slot \in 0..(MaxSize - 1)
           /\ currentIndex' = Slot
           /\ Full => /\ Len(measurements) = MaxSize
                      /\ measurements' = [measurements EXCEPT ![Slot + 1] = t]
                      /\ wrapped'
           /\ ~Full => /\ Len(measurements) < MaxSize
                       /\ measurements' = Append(measurements, t)
                       /\ ~wrapped /\ ~wrapped'
<1>1. /\ measurements \in Seq(1..Len(timing)) /\ Len(measurements) <= MaxSize
      /\ currentIndex \in 0..(MaxSize - 1) /\ (wrapped => Len(measurements) = MaxSize)
      /\ wrapped \in BOOLEAN
  BY DEF StorageTypeOK, RingShape
<1>2. Len(measurements) \in Nat /\ MaxSize \in Nat \ {0}
  BY <1>1, LenProperties, StorageAssumption
<1>3. Slot \in 0..(MaxSize - 1)
  BY <1>1, <1>2, RingStep DEF Slot, Full
<1>4. /\ currentIndex' = Slot
      /\ wrapped' = (wrapped \/ Full)
      /\ measurements' = IF Full THEN [measurements EXCEPT ![Slot + 1] = t]
                         ELSE Append(measurements, t)
  BY DEF Store, Slot, Full
<1>5. ~Full => Len(measurements) < MaxSize
  BY <1>2 DEF Full
<1>6. Full => Len(measurements) = MaxSize
  BY <1>1, <1>2 DEF Full
<1>7. ~Full => ~wrapped
  BY <1>1, <1>2 DEF Full
<1> QED
  BY <1>1, <1>2, <1>3, <1>4, <1>5, <1>6, <1>7

(* The position i places round the ring from a.                            *)
Pos(a, i) == IF a + i - 1 < MaxSize THEN a + i - 1 ELSE a + i - 1 - MaxSize

(* A full ring, wrapped or not, is read from the slot that the next Store  *)
(* overwrites.                                                             *)
LEMMA FullRing ==
    ASSUME StorageTypeOK, RingShape, Full
    PROVE  GetAll = [i \in 1..MaxSize |-> measurements[Pos(Slot, i) + 1]]
<1>1. /\ measurements \in Seq(1..Len(timing)) /\ Len(measurements) <= MaxSize
      /\ currentIndex \in 0..(MaxSize - 1) /\ (wrapped => Len(measurements) = MaxSize)
      /\ wrapped \in BOOLEAN
      /\ ~wrapped => currentIndex = IF measurements = <<>> THEN 0 ELSE Len(measurements) - 1
  BY DEF StorageTypeOK, RingShape
<1>2. MaxSize \in Nat \ {0} /\ Len(measurements) = MaxSize
      /\ DOMAIN measurements = 1..MaxSize /\ measurements # <<>>
  BY <1>1, LenProperties, EmptySeq, StorageAssumption DEF Full
<1>3. Slot = (currentIndex + 1) % MaxSize
  BY DEF Slot
<1>4. CASE wrapped
  <2>1. Slot \in 0..(MaxSize - 1)
    BY <1>1, <1>2, <1>3, RingStep
  <2>2. \A i \in 1..MaxSize : (Slot + i - 1) % MaxSize = Pos(Slot, i)
    BY <2>1, <1>2, RingStep DEF Pos
  <2>3. GetAll = [i \in 1..MaxSize |-> measurements[((Slot + i - 1) % MaxSize) + 1]]
    BY <1>3, <1>4 DEF GetAll
  <2> QED
    BY <2>2, <2>3
<1>5. CASE ~wrapped
  <2>1. currentIndex = MaxSize - 1
    BY <1>1, <1>2, <1>5
  <2>2. Slot = 0
    BY <1>2, <1>3, <2>1, RingStep
  <2>3. \A i \in 1..MaxSize : Pos(Slot, i) + 1 = i
    BY <1>2, <2>2 DEF Pos
  <2>4. measurements = [i \in 1..MaxSize |-> measurements[i]]
    BY <1>1, <1>2, LenProperties
  <2> QED
    BY <2>3, <2>4, <1>5 DEF GetAll
<1> QED
  BY <1>1, <1>4, <1>5

(* Store appends to the log that GetAll returns, dropping its oldest entry *)
(* when it is full.                                                        *)
LEMMA StorePushes ==
    ASSUME StorageTypeOK, RingShape, NEW t \in Nat, NEW data, Store(t, data)
    PROVE  Recent!Push(t)
<1>r. /\ measurements \in Seq(1..Len(timing)) /\ Len(measurements) \in Nat
      /\ Slot \in 0..(MaxSize - 1)
      /\ currentIndex' = Slot
      /\ Full => /\ Len(measurements) = MaxSize
                 /\ measurements' = [measurements EXCEPT ![Slot + 1] = t]
                 /\ wrapped'
      /\ ~Full => /\ Len(measurements) < MaxSize
                  /\ measurements' = Append(measurements, t)
                  /\ ~wrapped /\ ~wrapped'
  BY StoreRing
<1>1. CASE ~Full
  <2>1. GetAll = measurements /\ GetAll' = Append(measurements, t)
    BY <1>1, <1>r DEF GetAll
  <2> QED
    BY <2>1, <1>1, <1>r DEF Recent!Push
<1>2. CASE Full
  <2> DEFINE m == measurements
             m1 == measurements'
             a == Slot
             b == IF a + 1 = MaxSize THEN 0 ELSE a + 1
             g == [i \in 1..MaxSize |-> m[Pos(a, i) + 1]]
             g1 == [i \in 1..MaxSize |-> m1[Pos(b, i) + 1]]
  <2>1. MaxSize \in Nat \ {0} /\ a \in 0..(MaxSize - 1) /\ b \in 0..(MaxSize - 1)
    BY <1>r, StorageAssumption
  <2>2. /\ \A i \in 1..Len(m) : m[i] \in 1..Len(timing)
        /\ DOMAIN m = 1..MaxSize
    BY <1>r, <1>2, ElementOfSeq, LenProperties
  <2>3. GetAll = g
    BY <1>2, FullRing
  <2>4. GetAll' = g1
    <3>1. (currentIndex' + 1) % MaxSize = b
      BY <1>r, <2>1, RingStep
    <3>2. \A i \in 1..MaxSize : (b + i - 1) % MaxSize = Pos(b, i)
      BY <2>1, RingStep DEF Pos
    <3>3. GetAll' = [i \in 1..MaxSize |-> m1[((b + i - 1) % MaxSize) + 1]]
      BY <3>1, <1>2, <1>r DEF GetAll
    <3> QED
      BY <3>2, <3>3
  <2>5. g \in Seq(1..Len(timing)) /\ Len(g) = MaxSize /\ g # <<>>
    <3>1. \A i \in 1..MaxSize : Pos(a, i) + 1 \in 1..MaxSize
      BY <2>1 DEF Pos
    <3>2. \A i \in 1..MaxSize : m[Pos(a, i) + 1] \in 1..Len(timing)
      BY <3>1, <2>2, <1>r, <1>2
    <3>3. g \in [1..MaxSize -> 1..Len(timing)]
      BY <3>2
    <3>4. g \in Seq(1..Len(timing))
      BY <3>3, <2>1, IsASeq
    <3>5. Len(g) = MaxSize
      BY <3>3, <3>4, <2>1, LenProperties
    <3> QED
      BY <3>4, <3>5, <2>1, EmptySeq
  <2> DEFINE h == Append(Tail(g), t)
  <2>6. /\ Tail(g) \in Seq(Nat) /\ Len(Tail(g)) = MaxSize - 1
        /\ \A i \in 1..(MaxSize - 1) : Tail(g)[i] = g[i + 1]
    <3> HIDE DEF g
    <3>1. g \in Seq(Nat)
      BY <2>5, SeqMonotonic
    <3> QED
      BY <3>1, <2>5, HeadTailProperties
  <2>7. /\ h \in Seq(Nat) /\ Len(h) = MaxSize
        /\ \A i \in 1..(MaxSize - 1) : h[i] = g[i + 1]
        /\ h[MaxSize] = t
    <3> DEFINE q == Tail(g)
    <3> HIDE DEF q, g
    <3>1. q \in Seq(Nat) /\ Len(q) = MaxSize - 1
          /\ \A i \in 1..(MaxSize - 1) : q[i] = g[i + 1]
      BY <2>6 DEF q
    <3>2. /\ Append(q, t) \in Seq(Nat) /\ Len(Append(q, t)) = MaxSize
          /\ \A i \in 1..(MaxSize - 1) : Append(q, t)[i] = q[i]
          /\ Append(q, t)[MaxSize] = t
      BY <3>1, <2>1, AppendProperties
    <3> QED
      BY <3>1, <3>2 DEF q
  <2>8. \A i \in 1..(MaxSize - 1) : g1[i] = h[i]
    <3> SUFFICES ASSUME NEW i \in 1..(MaxSize - 1) PROVE g1[i] = h[i]
      OBVIOUS
    <3>1. Pos(b, i) = Pos(a, i + 1) /\ Pos(b, i) # a /\ Pos(b, i) + 1 \in 1..MaxSize
      BY <2>1 DEF Pos
    <3>2. g1[i] = m1[Pos(b, i) + 1] /\ g[i + 1] = m[Pos(a, i + 1) + 1]
      BY <2>1
    <3>3. m1[Pos(b, i) + 1] = m[Pos(b, i) + 1]
      <4> DEFINE k == Pos(b, i) + 1
      <4>1. k \in DOMAIN m /\ k # a + 1
        BY <3>1, <2>1, <2>2 DEF Pos
      <4>2. m1 = [m EXCEPT ![a + 1] = t]
        BY <1>r, <1>2
      <4> HIDE DEF k, m, m1, a
      <4> QED
        BY <4>1, <4>2 DEF k
    <3> HIDE DEF g, g1, h, m, m1, b
    <3> QED
      BY <3>1, <3>2, <3>3, <2>7
  <2>9. g1[MaxSize] = t
    <3>1. Pos(b, MaxSize) = a
      BY <2>1 DEF Pos
    <3>2. g1[MaxSize] = m1[a + 1]
      BY <3>1, <2>1
    <3> QED
      BY <3>2, <2>1, <2>2, <1>r, <1>2
  <2>10. g1 = h
    <3>1. g1 = [i \in 1..MaxSize |-> g1[i]]
      OBVIOUS
    <3>2. h = [i \in 1..MaxSize |-> h[i]]
      <4> HIDE DEF h
      <4> QED
        BY <2>7, LenProperties
    <3>3. \A i \in 1..MaxSize : g1[i] = h[i]
      <4> HIDE DEF g1, h
      <4>1. \A i \in 1..MaxSize : i \in 1..(MaxSize - 1) \/ i = MaxSize
        BY <2>1
      <4> QED
        BY <4>1, <2>7, <2>8, <2>9
    <3> HIDE DEF g1, h
    <3> QED
      BY <3>1, <3>2, <3>3
  <2>11. ~(Len(g) < MaxSize)
    BY <2>1, <2>5
  <2> HIDE DEF g, g1
  <2> QED
    BY <2>3, <2>4, <2>10, <2>11 DEF Recent!Push
<1> QED
  BY <1>1, <1>2

(* Clear empties it.                                                       *)
LEMMA ClearedEmpties == ASSUME Cleared PROVE Recent!Empty
  BY DEF Cleared, GetAll, Recent!Empty

-----------------------------------------------------------------------------
(* The ring after Store: the new measurement has taken the place of the    *)
(* oldest, if there was one.                                               *)
Evicted == IF Full THEN {measurements[Slot + 1]} ELSE {}

LEMMA StoreShape ==
    ASSUME StorageTypeOK, RingShape, NEW data \in TimingData,
           Len(timing) < MaxTimings,
           Store(Len(timing) + 1, data), timing' = Append(timing, data)
    PROVE  /\ StorageTypeOK' /\ RingShape'
           /\ ToSet(measurements') = (ToSet(measurements) \ Evicted) \cup {Len(timing) + 1}
           /\ Len(measurements') <= Len(measurements) + 1
           /\ Full => measurements[Slot + 1] \in ToSet(measurements)
<1> DEFINE t == Len(timing) + 1
           m == measurements
           m1 == measurements'
<1>r. /\ m \in Seq(1..Len(timing)) /\ Len(m) \in Nat
      /\ Slot \in 0..(MaxSize - 1)
      /\ currentIndex' = Slot
      /\ Full => /\ Len(m) = MaxSize
                 /\ m1 = [m EXCEPT ![Slot + 1] = t]
                 /\ wrapped'
      /\ ~Full => /\ Len(m) < MaxSize
                  /\ m1 = Append(m, t)
                  /\ ~wrapped /\ ~wrapped'
  BY StoreRing
<1>1. /\ timing \in Seq(TimingData) /\ Len(timing) \in Nat
      /\ timing' \in Seq(TimingData) /\ Len(timing') = t
  BY AppendProperties, LenProperties DEF StorageTypeOK
<1>2. MaxSize \in Nat \ {0} /\ IsInjective(m)
  BY StorageAssumption DEF RingShape
<1>3. DOMAIN m = 1..Len(m) /\ \A i \in 1..Len(m) : m[i] \in 1..Len(timing)
  BY <1>r, LenProperties, ElementOfSeq
<1>4. wrapped' \in BOOLEAN
  BY DEF Store, RingShape
<1>5. /\ Len(m1) \in Nat /\ DOMAIN m1 = 1..Len(m1)
      /\ Len(m1) = IF Full THEN Len(m) ELSE Len(m) + 1
      /\ m1 \in Seq(1..t)
      /\ \A i \in 1..Len(m1) : m1[i] = IF i = Slot + 1 THEN t ELSE m[i]
      /\ Slot + 1 \in 1..Len(m1)
  <2>0. m \in Seq(1..t)
    <3>1. 1..Len(timing) \subseteq 1..t
      BY <1>1
    <3> QED
      BY <3>1, <1>r, SeqMonotonic
  <2>t. t \in 1..t
    BY <1>1
  <2> HIDE DEF t, m
  <2>1. CASE Full
    <3>1. m1 = [m EXCEPT ![Slot + 1] = t] /\ Len(m) = MaxSize
      BY <2>1, <1>r
    <3>2. Slot + 1 \in 1..Len(m)
      BY <3>1, <1>r, <1>2
    <3>3. m1 \in Seq(1..t) /\ Len(m1) = Len(m)
          /\ \A i \in 1..Len(m) : m1[i] = IF i = Slot + 1 THEN t ELSE m[i]
      BY <3>1, <3>2, <2>0, <2>t, ExceptSeq
    <3>4. DOMAIN m1 = 1..Len(m1)
      BY <3>3, LenProperties
    <3> QED
      BY <3>2, <3>3, <3>4, <2>1, <1>r
  <2>2. CASE ~Full
    <3>1. m1 = Append(m, t) /\ Slot = Len(m)
      BY <2>2, <1>r DEF Slot, m
    <3>2. /\ m1 \in Seq(1..t) /\ Len(m1) = Len(m) + 1
          /\ \A i \in 1..Len(m) : m1[i] = m[i]
          /\ m1[Len(m) + 1] = t
      BY <3>1, <2>0, <2>t, AppendProperties
    <3>3. DOMAIN m1 = 1..Len(m1)
      BY <3>2, LenProperties
    <3>4. \A i \in 1..(Len(m) + 1) : i # Len(m) + 1 => i \in 1..Len(m)
      BY <1>r
    <3> QED
      BY <3>1, <3>2, <3>3, <3>4, <2>2, <1>r
  <2> QED
    BY <2>1, <2>2
<1>6. \A i \in 1..Len(m1) : i # Slot + 1 => i \in 1..Len(m)
  BY <1>5, <1>r DEF Slot
<1>7. Full => Slot + 1 \in 1..Len(m)
  BY <1>r, <1>2
<1>8. ~Full => Slot + 1 \notin 1..Len(m) /\ Slot = Len(m)
  BY <1>r DEF Slot
<1>9. StorageTypeOK'
  <2>1. Len(m1) <= MaxSize /\ (wrapped' => Len(m1) = MaxSize)
    BY <1>5, <1>r, <1>2
  <2>2. Len(timing') <= MaxTimings
    BY <1>1, StorageAssumption
  <2> QED
    BY <2>1, <2>2, <1>1, <1>5, <1>r DEF StorageTypeOK
<1>10. IsInjective(m1)
  <2>1. \A i \in 1..Len(m1) : i # Slot + 1 => m1[i] # t
    BY <1>1, <1>3, <1>5, <1>6
  <2> QED
    BY <2>1, <1>2, <1>3, <1>5, <1>6 DEF IsInjective
<1>11. RingShape'
  <2>1. ~wrapped' => currentIndex' = Len(m1) - 1 /\ m1 # <<>>
    BY <1>r, <1>5, <1>8, EmptySeq
  <2> QED
    BY <2>1, <1>4, <1>10 DEF RingShape
<1>12. ToSet(m1) = (ToSet(m) \ Evicted) \cup {t}
  <2>1. ToSet(m1) = {m1[i] : i \in 1..Len(m1)} /\ ToSet(m) = {m[i] : i \in 1..Len(m)}
    BY <1>3, <1>5 DEF ToSet
  <2>2. ASSUME NEW i \in 1..Len(m1) PROVE m1[i] \in (ToSet(m) \ Evicted) \cup {t}
    <3>1. CASE i # Slot + 1
      <4>1. m1[i] = m[i] /\ i \in 1..Len(m)
        BY <3>1, <1>5, <1>6
      <4>2. m[i] \notin Evicted
        BY <4>1, <3>1, <1>2, <1>3, <1>7 DEF Evicted, IsInjective
      <4> QED
        BY <4>1, <4>2, <2>1
    <3>2. CASE i = Slot + 1
      BY <3>2, <1>5
    <3> QED
      BY <3>1, <3>2
  <2>3. ASSUME NEW i \in 1..Len(m), m[i] \notin Evicted PROVE m[i] \in ToSet(m1)
    <3>1. i # Slot + 1
      BY <2>3, <1>8 DEF Evicted
    <3>2. i \in 1..Len(m1)
      BY <1>5, <1>r
    <3> QED
      BY <3>1, <3>2, <2>1, <1>5
  <2>4. t \in ToSet(m1)
    BY <2>1, <1>5
  <2> HIDE DEF m, m1, t
  <2> QED
    BY <2>1, <2>2, <2>3, <2>4
<1>13. Len(m1) <= Len(m) + 1
  BY <1>5, <1>r
<1>14. Full => m[Slot + 1] \in ToSet(m)
  BY <1>3, <1>7 DEF ToSet
<1> QED
  BY <1>9, <1>11, <1>12, <1>13, <1>14

-----------------------------------------------------------------------------
(* Slices without repetitions: adding a new entry at the end.              *)
LEMMA AppendExact ==
    ASSUME NEW T, NEW s \in Seq(T), IsInjective(s), NEW e \in T, e \notin ToSet(s)
    PROVE  /\ Append(s, e) \in Seq(T) /\ IsInjective(Append(s, e))
           /\ ToSet(Append(s, e)) = ToSet(s) \cup {e}
<1> DEFINE r == Append(s, e)
<1>1. /\ r \in Seq(T) /\ Len(r) = Len(s) + 1 /\ Len(s) \in Nat
      /\ \A i \in 1..Len(s) : r[i] = s[i]
      /\ r[Len(s) + 1] = e
  BY AppendProperties, LenProperties
<1> HIDE DEF r
<1>2. DOMAIN r = 1..(Len(s) + 1) /\ DOMAIN s = 1..Len(s)
  BY <1>1, LenProperties
<1>3. \A i \in DOMAIN r : i \in 1..Len(s) \/ i = Len(s) + 1
  BY <1>1, <1>2
<1>4. \A i \in 1..Len(s) : s[i] # e
  BY <1>2 DEF ToSet
<1>5. IsInjective(r)
  BY <1>1, <1>2, <1>3, <1>4 DEF IsInjective
<1>6. ToSet(r) = ToSet(s) \cup {e}
  <2>1. Len(s) + 1 \in DOMAIN r /\ \A i \in 1..Len(s) : i \in DOMAIN r
    BY <1>1, <1>2
  <2> QED
    BY <2>1, <1>1, <1>2, <1>3 DEF ToSet
<1> QED
  BY <1>1, <1>5, <1>6 DEF r

(* removeTimingFromSlice, on the slice: the last entry takes the place of  *)
(* the first one equal to e.                                               *)
Removed(s, e) ==
    LET i == SelectInSeq(s, LAMBDA x : x = e)
    IN  Front([s EXCEPT ![i] = Last(s)])

LEMMA RemoveExact ==
    ASSUME NEW T, NEW s \in Seq(T), IsInjective(s), NEW e \in ToSet(s)
    PROVE  /\ Removed(s, e) \in Seq(T) /\ IsInjective(Removed(s, e))
           /\ ToSet(Removed(s, e)) = ToSet(s) \ {e}
<1>1. Len(s) \in Nat /\ DOMAIN s = 1..Len(s) /\ \A i \in 1..Len(s) : s[i] \in T
  BY LenProperties, ElementOfSeq
<1>2. PICK j \in 1..Len(s) : s[j] = e
  BY <1>1 DEF ToSet
<1>3. SelectInSeq(s, LAMBDA x : x = e) = j
  <2>1. {i \in 1..Len(s) : s[i] = e} = {j}
    BY <1>1, <1>2 DEF IsInjective
  <2>2. Min({j}) = j
    BY DEF Min
  <2> QED
    BY <2>1, <2>2 DEF SelectInSeq
<1> DEFINE n == Len(s)
           x == [s EXCEPT ![j] = s[n]]
           r == SubSeq(x, 1, n - 1)
<1>4. Removed(s, e) = SubSeq(x, 1, Len(x) - 1)
  BY <1>3 DEF Removed, Front, Last
<1>5. n \in 1..n
  BY <1>1
<1>6. x \in Seq(T) /\ Len(x) = n
      /\ \A i \in 1..n : x[i] = IF i = j THEN s[n] ELSE s[i]
  BY <1>1, <1>5, ExceptSeq
<1>7. Removed(s, e) = r
  BY <1>4, <1>6
<1> HIDE DEF x
<1>8. r \in Seq(T) /\ Len(r) = n - 1 /\ \A i \in 1..(n - 1) : r[i] = x[i]
  <2>1. 1 \in 1..(n + 1) /\ n - 1 \in 0..n
    BY <1>1, <1>5
  <2>2. /\ SubSeq(x, 1, n - 1) \in Seq(T)
        /\ Len(SubSeq(x, 1, n - 1)) = IF 1 <= n - 1 THEN (n - 1) - 1 + 1 ELSE 0
        /\ \A i \in 1..((n - 1) - 1 + 1) : SubSeq(x, 1, n - 1)[i] = x[1 + i - 1]
    BY <2>1, <1>6, SubSeqProperties
  <2>3. (IF 1 <= n - 1 THEN (n - 1) - 1 + 1 ELSE 0) = n - 1 /\ (n - 1) - 1 + 1 = n - 1
        /\ \A i \in 1..(n - 1) : 1 + i - 1 = i
    BY <1>1, <1>5
  <2> QED
    BY <2>2, <2>3
<1> HIDE DEF r
<1>9. DOMAIN r = 1..(n - 1) /\ \A i \in 1..(n - 1) : i \in 1..n /\ i # n
  <2>1. DOMAIN r = 1..(n - 1)
    <3>1. DOMAIN r = 1..Len(r)
      BY <1>8, LenProperties
    <3> QED
      BY <3>1, <1>8
  <2>2. ASSUME NEW i \in 1..(n - 1) PROVE i \in 1..n /\ i # n
    <3>1. n \in Nat
      BY <1>1
    <3> HIDE DEF n
    <3> QED
      BY <3>1
  <2> QED
    BY <2>1, <2>2
<1>10. \A i \in 1..(n - 1) : r[i] = IF i = j THEN s[n] ELSE s[i]
  BY <1>6, <1>8, <1>9
<1>11. IsInjective(r)
  BY <1>1, <1>5, <1>9, <1>10 DEF IsInjective
<1>12. ToSet(r) = ToSet(s) \ {e}
  <2>1. ASSUME NEW i \in DOMAIN r PROVE r[i] \in ToSet(s) \ {e}
    <3>1. CASE i = j
      BY <3>1, <1>1, <1>2, <1>5, <1>9, <1>10 DEF ToSet, IsInjective
    <3>2. CASE i # j
      BY <3>2, <1>1, <1>2, <1>9, <1>10 DEF ToSet, IsInjective
    <3> QED
      BY <3>1, <3>2
  <2>2. ASSUME NEW i \in DOMAIN s, s[i] # e PROVE s[i] \in ToSet(r)
    <3>1. CASE i = n
      <4>1. j \in 1..(n - 1)
        BY <2>2, <3>1, <1>1, <1>2
      <4> QED
        BY <4>1, <3>1, <1>9, <1>10 DEF ToSet
    <3>2. CASE i # n
      <4>1. i \in 1..(n - 1) /\ i # j
        BY <2>2, <3>2, <1>1, <1>2
      <4> QED
        BY <4>1, <1>9, <1>10 DEF ToSet
    <3> QED
      BY <3>1, <3>2
  <2> QED
    BY <2>1, <2>2 DEF ToSet
<1> QED
  BY <1>7, <1>8, <1>11, <1>12

-----------------------------------------------------------------------------
(* Store keeps the index exact: it removes the measurement it overwrites   *)
(* from the slice of its category and adds the new one to its own.         *)
LEMMA StoreIndex ==
    ASSUME StorageInv, NEW data \in TimingData, Len(timing) < MaxTimings,
           Store(Len(timing) + 1, data), timing' = Append(timing, data)
    PROVE  IndexExact'
<1> DEFINE t == Len(timing) + 1
           N == Len(timing)
           old == measurements[Slot + 1]
           kept == ToSet(measurements) \ Evicted
           index == IF Full
                    THEN removeTimingFromSlice(byCategory, timing[old].category, old)
                    ELSE byCategory
<1>1. /\ byCategory \in [Categories -> Seq(1..N)]
      /\ \A c \in Categories :
           /\ ToSet(byCategory[c]) = {x \in ToSet(measurements) : timing[x].category = c}
           /\ IsInjective(byCategory[c])
  BY DEF StorageInv, IndexExact
<1>2. /\ timing \in Seq(TimingData) /\ N \in Nat
      /\ \A i \in 1..N : timing[i] \in TimingData
      /\ \A i \in 1..N : timing'[i] = timing[i]
      /\ timing'[t] = data /\ Len(timing') = t
  BY AppendProperties, LenProperties, ElementOfSeq DEF StorageInv, StorageTypeOK
<1>3. ToSet(measurements) \subseteq 1..N
  BY LenProperties, ElementOfSeq DEF StorageInv, StorageTypeOK, ToSet
<1>4. /\ ToSet(measurements') = kept \cup {t}
      /\ Full => old \in ToSet(measurements)
  BY StoreShape DEF StorageInv
<1>5. \A i \in 1..N : timing[i].category \in Categories /\ timing[i].category # NoCheck
  BY <1>2, StorageAssumption DEF TimingData
<1>6. data.category \in Categories /\ data.category # NoCheck
  BY StorageAssumption DEF TimingData
<1>7. byCategory' = addToIndex(index, data.category, t)
  BY DEF Store, Slot, Full
<1>8. /\ index \in [Categories -> Seq(1..N)]
      /\ \A c \in Categories :
           /\ ToSet(index[c]) = {x \in kept : timing[x].category = c}
           /\ IsInjective(index[c])
  <2>1. CASE ~Full
    BY <2>1, <1>1 DEF Evicted
  <2>2. CASE Full
    <3> DEFINE k == timing[old].category
               slice == byCategory[k]
    <3>1. old \in 1..N /\ k \in Categories /\ k # NoCheck /\ Evicted = {old}
      BY <2>2, <1>3, <1>4, <1>5 DEF Evicted
    <3>2. slice \in Seq(1..N) /\ IsInjective(slice) /\ old \in ToSet(slice)
      BY <3>1, <2>2, <1>1, <1>4
    <3>3. Contains(slice, old)
      <4> HIDE DEF slice, old
      <4> QED
        BY <3>2, LenProperties DEF Contains, ToSet
    <3>4. index = [byCategory EXCEPT ![k] = Removed(slice, old)]
      BY <2>2, <3>1, <3>3 DEF removeTimingFromSlice, Removed
    <3> HIDE DEF index
    <3>5. /\ Removed(slice, old) \in Seq(1..N) /\ IsInjective(Removed(slice, old))
          /\ ToSet(Removed(slice, old)) = ToSet(slice) \ {old}
      BY <3>2, RemoveExact
    <3>6. index \in [Categories -> Seq(1..N)]
          /\ index[k] = Removed(slice, old)
          /\ \A c \in Categories : c # k => index[c] = byCategory[c]
      BY <3>1, <3>4, <3>5, <1>1
    <3>7. ASSUME NEW c \in Categories
          PROVE  /\ ToSet(index[c]) = {x \in kept : timing[x].category = c}
                 /\ IsInjective(index[c])
      <4>1. CASE c = k
        BY <4>1, <3>1, <3>5, <3>6, <1>1
      <4>2. CASE c # k
        <5>1. \A x \in ToSet(measurements) : timing[x].category = c => x # old
          BY <4>2
        <5> HIDE DEF k, slice, old
        <5> QED
          BY <4>2, <5>1, <3>1, <3>6, <1>1
      <4> QED
        BY <4>1, <4>2
    <3> QED
      BY <3>6, <3>7
  <2> QED
    BY <2>1, <2>2
<1> HIDE DEF index
<1> DEFINE k == data.category
           slice == index[k]
<1>9. byCategory' = [index EXCEPT ![k] = Append(slice, t)]
  BY <1>6, <1>7, <1>8 DEF addToIndex
<1>10. /\ slice \in Seq(1..t) /\ IsInjective(slice) /\ t \notin ToSet(slice) /\ t \in 1..t
       /\ \A c \in Categories : index[c] \in Seq(1..t)
  <2>1. 1..N \subseteq 1..t /\ t \notin 1..N /\ t \in 1..t
    BY <1>2
  <2> HIDE DEF t, N
  <2>2. \A c \in Categories : index[c] \in Seq(1..t)
    BY <2>1, <1>8, SeqMonotonic
  <2>3. t \notin ToSet(slice)
    BY <2>1, <1>3, <1>6, <1>8
  <2> QED
    BY <2>1, <2>2, <2>3, <1>6, <1>8
<1>11. /\ Append(slice, t) \in Seq(1..t) /\ IsInjective(Append(slice, t))
       /\ ToSet(Append(slice, t)) = ToSet(slice) \cup {t}
  BY <1>10, AppendExact
<1>12. /\ byCategory' \in [Categories -> Seq(1..t)]
       /\ byCategory'[k] = Append(slice, t)
       /\ \A c \in Categories : c # k => byCategory'[c] = index[c]
  <2>1. index \in [Categories -> Seq(1..t)]
    BY <1>8, <1>10
  <2> HIDE DEF slice, t, k
  <2> QED
    BY <2>1, <1>6, <1>9, <1>11 DEF k
<1>13. ASSUME NEW c \in Categories
       PROVE  /\ ToSet(byCategory'[c]) =
                    {x \in ToSet(measurements') : timing'[x].category = c}
              /\ IsInjective(byCategory'[c])
  <2>1. \A x \in kept : timing'[x] = timing[x]
    BY <1>2, <1>3
  <2>2. timing'[t].category = k
    BY <1>2
  <2>3. {x \in ToSet(measurements') : timing'[x].category = c} =
          {x \in kept : timing[x].category = c} \cup (IF c = k THEN {t} ELSE {})
    <3> HIDE DEF kept, t, k
    <3> QED
      BY <2>1, <2>2, <1>4
  <2>4. CASE c = k
    <3> HIDE DEF kept, t, k
    <3> QED
      BY <2>3, <2>4, <1>8, <1>11, <1>12
  <2>5. CASE c # k
    <3> HIDE DEF kept, t, k
    <3> QED
      BY <2>3, <2>5, <1>8, <1>12
  <2> QED
    BY <2>4, <2>5
<1> QED
  BY <1>2, <1>12, <1>13 DEF IndexExact

(* An exact index has as many entries as the statistics count in the       *)
(* buffer: both are in bijection with the stored measurements.             *)
LEMMA IndexCounted ==
    ASSUME StorageInv, NEW c \in Categories
    PROVE  GetStatistics.CategoryCounts[c] = Len(byCategory[c])
<1> DEFINE m == measurements
           s == byCategory[c]
           T == {t \in ToSet(m) : timing[t].category = c}
           S == {i \in DOMAIN m : timing[m[i]].category = c}
<1>1. /\ m \in Seq(1..Len(timing)) /\ IsInjective(m)
      /\ s \in Seq(1..Len(timing)) /\ IsInjective(s) /\ ToSet(s) = T
  BY DEF StorageInv, StorageTypeOK, RingShape, IndexExact
<1>2. /\ DOMAIN m = 1..Len(m) /\ Len(m) \in Nat
      /\ DOMAIN s = 1..Len(s) /\ Len(s) \in Nat
  <2> HIDE DEF m, s
  <2> QED
    BY <1>1, LenProperties
<1>3. GetStatistics.CategoryCounts[c] = Cardinality(S)
  BY DEF GetStatistics, Quantify
<1>4. IsFiniteSet(S)
  <2>1. IsFiniteSet(1..Len(m))
    BY <1>2, FS_Interval
  <2>2. S \subseteq 1..Len(m)
    BY <1>2
  <2> HIDE DEF S
  <2> QED
    BY <2>1, <2>2, FS_Subset
<1>5. ExistsBijection(S, T)
  <2> DEFINE f == [i \in S |-> m[i]]
  <2>1. f \in [S -> T]
    BY DEF ToSet
  <2>2. \A t \in T : \E i \in S : f[i] = t
    BY DEF ToSet
  <2>3. \A i, j \in S : f[i] = f[j] => i = j
    BY <1>1 DEF IsInjective
  <2>4. f \in Bijection(S, T)
    <3>1. DOMAIN f = S
      OBVIOUS
    <3> HIDE DEF f, S, T
    <3> QED
      BY <2>1, <2>2, <2>3, <3>1 DEF Bijection, Injection, Surjection, IsInjective
  <2> QED
    BY <2>4 DEF ExistsBijection
<1>6. Cardinality(T) = Cardinality(S)
  <2> HIDE DEF S, T
  <2> QED
    BY <1>4, <1>5, FS_Bijection
<1>7. ExistsBijection(1..Len(s), ToSet(s))
  <2> HIDE DEF s
  <2>1. s \in [1..Len(s) -> ToSet(s)]
    BY <1>1, <1>2, LenProperties DEF ToSet
  <2>2. \A t \in ToSet(s) : \E i \in 1..Len(s) : s[i] = t
    BY <1>2 DEF ToSet
  <2>3. s \in Bijection(1..Len(s), ToSet(s))
    BY <2>1, <2>2, <1>1 DEF Bijection, Injection, Surjection
  <2> QED
    BY <2>3 DEF ExistsBijection
<1>8. Cardinality(ToSet(s)) = Len(s)
  <2> HIDE DEF s
  <2> QED
    BY <1>2, <1>7, FS_CountingElements
<1> QED
  BY <1>1, <1>3, <1>6, <1>8

-----------------------------------------------------------------------------
(* Labelling a measurement leaves its category, and so the index, alone.   *)
LEMMA LabelStorage ==
    ASSUME StorageInv, NEW u \in Workers, LabelLatest(u)
    PROVE  StorageInv'
<1>1. UNCHANGED storageVars
  BY DEF LabelLatest
<1>2. CASE measurements = <<>>
  BY <1>1, <1>2 DEF LabelLatest, storageVars, StorageInv, StorageTypeOK, RingShape,
                    IndexExact
<1>3. CASE measurements # <<>>
  <2> DEFINE g == GetLatest
  <2>1. PICK k \in CheckNames :
          timing' = [timing EXCEPT ![g].check = k, ![g].worker = u]
    BY <1>3 DEF LabelLatest
  <2>2. /\ measurements \in Seq(1..Len(timing)) /\ timing \in Seq(TimingData)
        /\ Len(timing) \in Nat /\ DOMAIN timing = 1..Len(timing)
    BY LenProperties DEF StorageInv, StorageTypeOK
  <2>3. g \in 1..Len(timing)
    <3>1. Len(measurements) \in Nat /\ Len(measurements) > 0
      BY <1>3, <2>2, LenProperties, EmptySeq
    <3>2. currentIndex + 1 \in 1..Len(measurements)
      BY <3>1, <1>3, StorageAssumption DEF StorageInv, StorageTypeOK, RingShape
    <3> QED
      BY <3>2, <2>2, ElementOfSeq DEF GetLatest
  <2> HIDE DEF g
  <2> DEFINE old == timing[g]
             new == [category |-> old.category, check |-> k, worker |-> u]
  <2>4. old \in TimingData
    BY <2>2, <2>3, ElementOfSeq
  <2>5. new \in TimingData
    BY <2>1, <2>4 DEF TimingData, WorkerIDs
  <2>6. timing' = [timing EXCEPT ![g] = new]
    <3>0. old = [category |-> old.category, check |-> old.check, worker |-> old.worker]
      BY <2>4 DEF TimingData
    <3>1. [[old EXCEPT !.check = k] EXCEPT !.worker = u] = new
      <4> DEFINE a == old.category  b == old.check  d == old.worker
      <4>1. old = [category |-> a, check |-> b, worker |-> d]
        BY <3>0
      <4> HIDE DEF a, b, d, old
      <4>2. [old EXCEPT !.check = k] = [category |-> a, check |-> k, worker |-> d]
        BY <4>1
      <4>3. [[category |-> a, check |-> k, worker |-> d] EXCEPT !.worker = u] =
               [category |-> a, check |-> k, worker |-> u]
        OBVIOUS
      <4> QED
        BY <4>2, <4>3 DEF a
    <3>2. timing' = [timing EXCEPT ![g] = [[old EXCEPT !.check = k] EXCEPT !.worker = u]]
      BY <2>1, <2>2, <2>3
    <3> QED
      BY <3>1, <3>2
  <2>7. /\ timing' \in Seq(TimingData) /\ Len(timing') = Len(timing)
        /\ \A i \in 1..Len(timing) : timing'[i] = IF i = g THEN new ELSE timing[i]
    <3> HIDE DEF new
    <3> QED
      BY <2>2, <2>3, <2>5, <2>6, ExceptSeq
  <2>8. \A i \in 1..Len(timing) : timing'[i].category = timing[i].category
    BY <2>7
  <2>9. ToSet(measurements) \subseteq 1..Len(timing)
    BY <2>2, LenProperties, ElementOfSeq DEF ToSet
  <2>10. StorageTypeOK' /\ RingShape'
    BY <1>1, <2>7 DEF storageVars, StorageInv, StorageTypeOK, RingShape
  <2>11. IndexExact'
    BY <1>1, <2>7, <2>8, <2>9 DEF storageVars, StorageInv, IndexExact
  <2> QED
    BY <2>10, <2>11 DEF StorageInv
<1> QED
  BY <1>2, <1>3

LEMMA ClearedStorage ==
    ASSUME StorageInv, Cleared, UNCHANGED timing
    PROVE  StorageInv'
<1>1. <<>> \in Seq(1..Len(timing)) /\ Len(<<>>) = 0 /\ DOMAIN <<>> = {}
  BY EmptySeq
<1>2. StorageTypeOK'
  BY <1>1, StorageAssumption DEF Cleared, StorageInv, StorageTypeOK
<1>3. IsInjective(<<>>) /\ ToSet(<<>>) = {}
  BY <1>1 DEF IsInjective, ToSet
<1>4. RingShape'
  BY <1>3 DEF Cleared, RingShape
<1>5. \A c \in Categories : byCategory'[c] = <<>>
  BY DEF Cleared
<1>6. byCategory' \in [Categories -> Seq(1..Len(timing))]
  BY <1>1 DEF Cleared
<1>7. IndexExact'
  BY <1>3, <1>5, <1>6 DEF Cleared, IndexExact
<1> QED
  BY <1>2, <1>4, <1>7 DEF StorageInv

LEMMA UnchangedStorage ==
    ASSUME StorageInv, UNCHANGED <<storageVars, timing>>
    PROVE  StorageInv'
  BY DEF storageVars, StorageInv, StorageTypeOK, RingShape, IndexExact

-----------------------------------------------------------------------------
(* The storage under the profiler's actions.                               *)
LEMMA FreshTiming ==
    ASSUME WorkerTypeOK, NEW u \in Workers
    PROVE  [category |-> kind[u], check |-> NoCheck, worker |-> 0] \in TimingData
  BY KindsAreCategories DEF WorkerTypeOK, TimingData, WorkerIDs

LEMMA StoreTimingStorage ==
    ASSUME StorageInv, WorkerTypeOK, NEW u \in Workers, StoreTiming(u)
    PROVE  /\ StorageInv'
           /\ Len(measurements') <= Len(measurements) + 1
           /\ \E e \in Timings : Recent!Push(e)
<1> DEFINE fresh == [category |-> kind[u], check |-> NoCheck, worker |-> 0]
<1>1. /\ Len(timing) < MaxTimings
      /\ Store(Len(timing) + 1, fresh) /\ timing' = Append(timing, fresh)
  BY DEF StoreTiming
<1>2. fresh \in TimingData
  BY FreshTiming
<1> HIDE DEF fresh
<1>3. /\ StorageTypeOK' /\ RingShape'
      /\ Len(measurements') <= Len(measurements) + 1
  BY <1>1, <1>2, StoreShape DEF StorageInv
<1>4. IndexExact'
  BY <1>1, <1>2, StoreIndex
<1>5. Len(timing) + 1 \in Timings /\ Len(timing) + 1 \in Nat
  <2>1. Len(timing) \in Nat
    BY LenProperties DEF StorageInv, StorageTypeOK
  <2> QED
    BY <2>1, <1>1, StorageAssumption DEF Timings
<1>6. Recent!Push(Len(timing) + 1)
  BY <1>1, <1>5, StorePushes DEF StorageInv
<1> QED
  BY <1>3, <1>4, <1>5, <1>6 DEF StorageInv

(* Every step stores one measurement, clears the storage, labels one that  *)
(* it keeps, or leaves the storage alone.                                  *)
Keeps == UNCHANGED <<storageVars, timing>>

LEMMA StorageSteps ==
    ASSUME [Next]_profilerVars
    PROVE  \/ \E u \in Workers : StoreTiming(u)
           \/ ResetClear
           \/ \E u \in Workers : LabelLatest(u)
           \/ Keeps
<1> USE DEF Keeps
<1>1. CASE UNCHANGED profilerVars
  BY <1>1 DEF profilerVars
<1>2. ASSUME NEW u \in Workers,
             updateMetrics(u) \/ NoteRun(u) \/ \E k \in Kinds : Profile(u, k)
      PROVE  Keeps
  BY <1>2 DEF updateMetrics, NoteRun, Profile
<1>3. ASSUME NEW p \in Workers \cup {Collector}, MetricsWait(p) \/ UnlockOfUnlocked(p)
      PROVE  Keeps
  BY <1>3 DEF MetricsWait, UnlockOfUnlocked
<1>4. CASE SetEnabled \/ Start \/ Stop \/ StopJoined \/ ResetLock \/ ResetSwap
             \/ CollectorStart \/ CollectorExit
  BY <1>4 DEF SetEnabled, Start, Stop, StopJoined, ResetLock, ResetSwap, CollectorStart,
              CollectorExit, ownerFrame
<1> HIDE DEF Keeps
<1> QED
  BY <1>1, <1>2, <1>3, <1>4 DEF Next, WorkerStep

LEMMA NextStorage ==
    ASSUME StorageInv, WorkerTypeOK, [Next]_profilerVars
    PROVE  StorageInv' /\ [Recent!Empty \/ \E e \in Timings : Recent!Push(e)]_GetAll
<1>1. ASSUME NEW u \in Workers, StoreTiming(u)
      PROVE  StorageInv' /\ \E e \in Timings : Recent!Push(e)
  BY <1>1, StoreTimingStorage
<1>2. CASE ResetClear
  BY <1>2, ClearedStorage, ClearedEmpties DEF ResetClear
<1>3. ASSUME NEW u \in Workers, LabelLatest(u)
      PROVE  StorageInv' /\ UNCHANGED GetAll
  <2>1. UNCHANGED storageVars
    BY <1>3 DEF LabelLatest
  <2> QED
    BY <2>1, <1>3, LabelStorage DEF storageVars, GetAll
<1>4. CASE Keeps
  <2>1. StorageInv'
    BY <1>4, UnchangedStorage DEF Keeps
  <2>2. UNCHANGED GetAll
    BY <1>4 DEF Keeps, storageVars, GetAll
  <2> QED
    BY <2>1, <2>2
<1> QED
  BY <1>1, <1>2, <1>3, <1>4, StorageSteps

-----------------------------------------------------------------------------
(* The workers that have stored and not counted yet.                       *)
Uncounted == {u \in Workers : upc[u] = "count"}

LEMMA UncountedFinite == IsFiniteSet(Uncounted) /\ Cardinality(Uncounted) \in Nat
<1>1. IsFiniteSet(Uncounted)
  BY FS_Subset, StorageAssumption DEF Uncounted
<1> QED
  BY <1>1, FS_CardinalityType

LEMMA NextCounted ==
    ASSUME IInv, [Next]_profilerVars
    PROVE  WorkerTypeOK' /\ Ahead'
<1> DEFINE n == Len(measurements)
           k == Cardinality(Uncounted)
<1>1. /\ measurements \in Seq(1..Len(timing)) /\ n \in Nat
  BY LenProperties DEF IInv, StorageInv, StorageTypeOK
<1>2. k \in Nat /\ IsFiniteSet(Uncounted)
  BY UncountedFinite
<1>3. totalOperations \in Nat /\ (opc # "swapped" => n <= totalOperations + k)
  BY DEF IInv, WorkerTypeOK, Ahead, Uncounted
<1>4. /\ upc \in [Workers -> {"idle", "run", "count", "note", "label"}]
      /\ kind \in [Workers -> Kinds]
  BY DEF IInv, WorkerTypeOK
<1>a. ASSUME /\ upc' \in [Workers -> {"idle", "run", "count", "note", "label"}]
             /\ kind' \in [Workers -> Kinds],
             Uncounted' = Uncounted, UNCHANGED <<measurements, totalOperations, opc>>
      PROVE  WorkerTypeOK' /\ Ahead'
  BY <1>a, <1>3 DEF WorkerTypeOK, Ahead, Uncounted
<1>5. ASSUME NEW u \in Workers, StoreTiming(u) PROVE WorkerTypeOK' /\ Ahead'
  <2>1. /\ upc[u] = "run" /\ upc' = [upc EXCEPT ![u] = "count"]
        /\ UNCHANGED <<totalOperations, kind, opc>>
    BY <1>5 DEF StoreTiming, workerFrame, ownerVars
  <2>2. Uncounted' = Uncounted \cup {u} /\ u \notin Uncounted
    BY <2>1, <1>4 DEF Uncounted
  <2>3. Cardinality(Uncounted') = k + 1
    BY <2>2, <1>2, FS_AddElement
  <2>4. StorageInv' /\ Len(measurements') <= n + 1
    BY <1>5, StoreTimingStorage DEF IInv
  <2>5. Len(measurements') \in Nat
    BY <2>4, LenProperties DEF StorageInv, StorageTypeOK
  <2>6. WorkerTypeOK'
    BY <2>1, <1>3, <1>4 DEF WorkerTypeOK
  <2>7. opc' # "swapped" => Len(measurements') <= totalOperations' + Cardinality(Uncounted')
    <3> DEFINE n1 == Len(measurements')
               k1 == Cardinality(Uncounted')
    <3>1. n1 \in Nat /\ n1 <= n + 1 /\ k1 = k + 1
      BY <2>3, <2>4, <2>5
    <3>2. totalOperations' = totalOperations /\ opc' = opc
      BY <2>1
    <3> HIDE DEF n, n1, k, k1
    <3>3. opc' # "swapped" => n1 <= totalOperations' + k1
      BY <3>1, <3>2, <1>1, <1>2, <1>3
    <3> QED
      BY <3>3 DEF n1, k1
  <2> QED
    BY <2>6, <2>7 DEF Ahead, Uncounted
<1>6. ASSUME NEW u \in Workers, updateMetrics(u) PROVE WorkerTypeOK' /\ Ahead'
  <2>1. /\ upc[u] = "count" /\ UNCHANGED <<measurements, opc>>
        /\ totalOperations' = totalOperations + 1
    BY <1>6 DEF updateMetrics, workerFrame, ownerVars, storageVars
  <2>2. \/ upc' = [upc EXCEPT ![u] = "idle"] /\ kind' = [kind EXCEPT ![u] = "call"]
        \/ upc' = [upc EXCEPT ![u] = "note"] /\ kind' = kind
    BY <1>6 DEF updateMetrics, Leave
  <2>3. Uncounted' = Uncounted \ {u} /\ u \in Uncounted
    BY <2>1, <2>2, <1>4 DEF Uncounted
  <2>4. Cardinality(Uncounted') = k - 1
    BY <2>3, <1>2, FS_RemoveElement
  <2>5. WorkerTypeOK'
    BY <2>1, <2>2, <1>3, <1>4 DEF WorkerTypeOK, Kinds
  <2>6. opc' # "swapped" => Len(measurements') <= totalOperations' + Cardinality(Uncounted')
    <3> DEFINE n1 == Len(measurements')
               k1 == Cardinality(Uncounted')
    <3>1. n1 = n /\ k1 = k - 1 /\ totalOperations' = totalOperations + 1 /\ opc' = opc
      BY <2>1, <2>4
    <3> HIDE DEF n, n1, k, k1
    <3>2. opc' # "swapped" => n1 <= totalOperations' + k1
      BY <3>1, <1>1, <1>2, <1>3
    <3> QED
      BY <3>2 DEF n1, k1
  <2> QED
    BY <2>5, <2>6 DEF Ahead, Uncounted
<1>7. ASSUME NEW u \in Workers,
             NoteRun(u) \/ LabelLatest(u) \/ \E x \in Kinds : Profile(u, x)
      PROVE  WorkerTypeOK' /\ Ahead'
  <2>1. UNCHANGED <<measurements, totalOperations, opc>>
    BY <1>7 DEF NoteRun, LabelLatest, Profile, workerFrame, ownerVars, storageVars
  <2>2. /\ upc[u] # "count"
        /\ \E x \in {"idle", "run", "note", "label"} : upc' = [upc EXCEPT ![u] = x]
        /\ kind' = kind \/ \E x \in Kinds : kind' = [kind EXCEPT ![u] = x]
    BY <1>7 DEF NoteRun, LabelLatest, Profile, Leave, Kinds
  <2>3. Uncounted' = Uncounted
    BY <2>2, <1>4 DEF Uncounted
  <2>4. /\ upc' \in [Workers -> {"idle", "run", "count", "note", "label"}]
        /\ kind' \in [Workers -> Kinds]
    BY <2>2, <1>4
  <2> QED
    BY <2>1, <2>3, <2>4, <1>a
<1>8. ASSUME \/ UNCHANGED profilerVars
             \/ \E p \in Workers \cup {Collector} : MetricsWait(p) \/ UnlockOfUnlocked(p)
             \/ SetEnabled \/ Start \/ CollectorStart \/ CollectorExit
      PROVE  WorkerTypeOK' /\ Ahead'
  <2>1. UNCHANGED <<measurements, totalOperations, opc, upc, kind>>
    BY <1>8 DEF profilerVars, MetricsWait, UnlockOfUnlocked, SetEnabled, Start,
         CollectorStart, CollectorExit, ownerFrame, ownerVars, workerVars, storageVars
  <2> QED
    BY <2>1, <1>4, <1>a DEF Uncounted
<1>9. ASSUME Stop \/ StopJoined \/ ResetLock PROVE WorkerTypeOK' /\ Ahead'
  <2>1. UNCHANGED <<measurements, totalOperations, upc, kind>> /\ opc # "swapped"
    BY <1>9 DEF Stop, StopJoined, ResetLock, ownerFrame, workerVars, storageVars
  <2> QED
    BY <2>1, <1>3, <1>4 DEF WorkerTypeOK, Ahead, Uncounted
<1>10. ASSUME ResetSwap PROVE WorkerTypeOK' /\ Ahead'
  BY <1>10, <1>4 DEF ResetSwap, workerVars, WorkerTypeOK, Ahead
<1>11. ASSUME ResetClear PROVE WorkerTypeOK' /\ Ahead'
  <2>1. measurements' = <<>> /\ UNCHANGED <<totalOperations, upc, kind>>
    BY <1>11 DEF ResetClear, Cleared, workerVars
  <2>2. Len(measurements') = 0
    BY <2>1, EmptySeq
  <2>3. Uncounted' = Uncounted
    BY <2>1 DEF Uncounted
  <2>4. Len(measurements') <= totalOperations' + Cardinality(Uncounted')
    BY <2>1, <2>2, <2>3, <1>2, <1>3
  <2> QED
    BY <2>1, <2>4, <1>3, <1>4 DEF WorkerTypeOK, Ahead, Uncounted
<1> QED
  BY <1>5, <1>6, <1>7, <1>8, <1>9, <1>10, <1>11 DEF Next, WorkerStep

-----------------------------------------------------------------------------
(* Starting and stopping.                                                  *)
LEMMA NextLifecycle ==
    ASSUME Lifecycle, [Next]_profilerVars
    PROVE  Lifecycle'
<1> USE DEF Lifecycle, CrashNeedsRestartOrReset
<1>1. ASSUME UNCHANGED <<starts, resets, starting, running, stopClosed, waiters, opc, crashed>>
      PROVE  Lifecycle'
  BY <1>1
<1>2. ASSUME NEW u \in Workers, WorkerStep(u) \/ \E k \in Kinds : Profile(u, k)
      PROVE  Lifecycle'
  <2>1. UNCHANGED <<starts, resets, starting, running, stopClosed, waiters, opc, crashed>>
    BY <1>2 DEF WorkerStep, StoreTiming, updateMetrics, NoteRun, LabelLatest, Profile,
                Up, workerFrame, collectorVars, ownerVars
  <2> QED
    BY <2>1, <1>1
<1>3. CASE SetEnabled \/ CollectorExit \/ UNCHANGED profilerVars
  <2>1. UNCHANGED <<starts, resets, starting, running, stopClosed, waiters, opc, crashed>>
    BY <1>3 DEF SetEnabled, CollectorExit, profilerVars, Up, ownerFrame, collectorVars,
                ownerVars
  <2> QED
    BY <2>1, <1>1
<1>4. ASSUME NEW p \in Workers \cup {Collector}, MetricsWait(p)
      PROVE  Lifecycle'
  <2>1. UNCHANGED <<starts, resets, starting, running, stopClosed, opc, crashed>>
        /\ opc = "locked"
    BY <1>4 DEF MetricsWait, Up, collectorVars, ownerVars
  <2> QED
    BY <2>1
<1>5. ASSUME NEW p \in Workers \cup {Collector}, UnlockOfUnlocked(p)
      PROVE  Lifecycle'
  <2>1. UNCHANGED <<starts, resets, starting, running, stopClosed, opc, waiters>>
        /\ p \in waiters
    BY <1>5 DEF UnlockOfUnlocked, collectorVars, ownerVars
  <2> QED
    BY <2>1
<1>6. CASE Start
  <2>1. /\ starts' = starts + 1 /\ starting' = starting + 1
        /\ UNCHANGED <<resets, running, stopClosed, opc, waiters, crashed>>
    BY <1>6 DEF Start, Up, ownerFrame
  <2> QED
    BY <2>1
<1>7. CASE Stop
  <2>1. /\ ~crashed /\ running' = FALSE /\ stopClosed' = (stopClosed \/ running)
        /\ crashed' = (running /\ stopClosed)
        /\ opc = "idle" /\ opc' \in {"joining", "idle"}
        /\ UNCHANGED <<starts, resets, starting, waiters>>
    BY <1>7 DEF Stop, ownerFrame
  <2>2. CASE running
    <3>1. running' = FALSE /\ stopClosed' = TRUE /\ crashed' = stopClosed
      BY <2>1, <2>2
    <3>2. starts <= 1 => ~stopClosed /\ starting + 1 <= starts
      BY <2>2
    <3>3. /\ running' \in BOOLEAN /\ stopClosed' \in BOOLEAN
          /\ (IF running' THEN 1 ELSE 0) = 0 /\ (IF stopClosed' THEN 1 ELSE 0) = 1
      BY <3>1
    <3>4. starts' <= 1 =>
            starting' + (IF running' THEN 1 ELSE 0) + (IF stopClosed' THEN 1 ELSE 0) <= starts'
      BY <2>1, <3>2, <3>3
    <3>5. crashed' => starts' > 1
      BY <2>1, <3>1, <3>2
    <3> QED
      BY <2>1, <3>3, <3>4, <3>5
  <2>3. CASE ~running
    <3>1. running' = FALSE /\ stopClosed' = stopClosed /\ crashed' = FALSE
      BY <2>1, <2>3
    <3> QED
      BY <2>1, <2>3, <3>1
  <2> QED
    BY <2>2, <2>3
<1>8. CASE StopJoined
  <2>1. /\ opc' = "idle"
        /\ UNCHANGED <<starts, resets, starting, running, stopClosed, waiters, crashed>>
    BY <1>8 DEF StopJoined, Up, ownerFrame, collectorVars
  <2> QED
    BY <2>1
<1>9. CASE ResetLock
  <2>1. /\ resets' = resets + 1
        /\ UNCHANGED <<starts, starting, running, stopClosed, waiters, crashed>>
    BY <1>9 DEF ResetLock, Up, ownerFrame, collectorVars
  <2> QED
    BY <2>1
<1>10. CASE ResetSwap \/ ResetClear
  <2>1. /\ opc \in {"locked", "swapped"}
        /\ UNCHANGED <<starts, resets, starting, running, stopClosed, waiters, crashed>>
    BY <1>10 DEF ResetSwap, ResetClear, Up, collectorVars
  <2> QED
    BY <2>1
<1>11. CASE CollectorStart
  <2>1. /\ starting > 0 /\ starting' = starting - 1 /\ running' = TRUE
        /\ UNCHANGED <<starts, resets, stopClosed, opc, waiters, crashed>>
    BY <1>11 DEF CollectorStart, Up, ownerFrame, ownerVars
  <2> QED
    BY <2>1
<1> HIDE DEF Lifecycle
<1> QED
  BY <1>2, <1>3, <1>4, <1>5, <1>6, <1>7, <1>8, <1>9, <1>10, <1>11 DEF Next

LEMMA InitIInv == Init => IInv /\ Recent!LogInit
<1> SUFFICES ASSUME Init PROVE IInv /\ Recent!LogInit
  OBVIOUS
<1>1. /\ measurements = <<>> /\ timing = <<>> /\ currentIndex = 0 /\ wrapped = FALSE
      /\ byCategory = [c \in Categories |-> <<>>]
  BY DEF Init, StorageInit
<1>2. /\ \A S : <<>> \in Seq(S)
      /\ Len(<<>>) = 0 /\ DOMAIN <<>> = {} /\ IsInjective(<<>>) /\ ToSet(<<>>) = {}
  BY EmptySeq DEF IsInjective, ToSet
<1>3. StorageTypeOK
  BY <1>1, <1>2, StorageAssumption DEF StorageTypeOK
<1>4. RingShape
  <2>1. wrapped \in BOOLEAN /\ IsInjective(measurements)
    BY <1>1, <1>2
  <2>2. currentIndex = IF measurements = <<>> THEN 0 ELSE Len(measurements) - 1
    BY <1>1
  <2> QED
    BY <2>1, <2>2 DEF RingShape
<1>5. IndexExact
  <2>1. byCategory \in [Categories -> Seq(1..Len(timing))]
    BY <1>1, <1>2
  <2>2. \A c \in Categories : byCategory[c] = <<>>
    BY <1>1
  <2> QED
    BY <1>1, <1>2, <2>1, <2>2 DEF IndexExact
<1>6. WorkerTypeOK
  BY DEF Init, WorkerTypeOK, Kinds
<1>7. Ahead
  <2>1. totalOperations = 0 /\ Len(measurements) = 0
    BY <1>1, <1>2 DEF Init
  <2>2. Cardinality(Uncounted) \in Nat
    BY UncountedFinite
  <2> QED
    BY <2>1, <2>2 DEF Ahead, Uncounted
<1>8. Lifecycle
  <2>1. /\ starts = 0 /\ resets = 0 /\ starting = 0 /\ waiters = {} /\ opc = "idle"
        /\ running = FALSE /\ stopClosed = FALSE /\ crashed = FALSE
    BY DEF Init
  <2>2. running \in BOOLEAN /\ stopClosed \in BOOLEAN /\ CrashNeedsRestartOrReset
    BY <2>1 DEF CrashNeedsRestartOrReset
  <2>3. (IF running THEN 1 ELSE 0) = 0 /\ (IF stopClosed THEN 1 ELSE 0) = 0
    BY <2>1
  <2>4. starting + (IF running THEN 1 ELSE 0) + (IF stopClosed THEN 1 ELSE 0) <= starts
    BY <2>1, <2>3
  <2> QED
    BY <2>1, <2>2, <2>4 DEF Lifecycle
<1>9. Recent!LogInit
  BY <1>1 DEF GetAll, Recent!LogInit
<1> QED
  BY <1>3, <1>4, <1>5, <1>6, <1>7, <1>8, <1>9 DEF IInv, StorageInv

(* The inductive invariant holds throughout.                               *)
THEOREM Inductive == Spec => []IInv
<1>1. IInv /\ [Next]_profilerVars => IInv'
  BY NextStorage, NextCounted, NextLifecycle DEF IInv
<1> QED
  BY InitIInv, <1>1, PTL DEF Spec

(* GetAll shows a log of the last MaxSize measurements, oldest first, that *)
(* Store extends and Clear empties: the circular buffer with its wrapped   *)
(* flag implements BoundedLog, whatever the workers and the owner do.      *)
THEOREM RingImplementsLog == Spec => LogImplemented
<1>1. Init => Recent!LogInit
  BY InitIInv
<1>2. IInv /\ [Next]_profilerVars => [Recent!Empty \/ \E e \in Timings : Recent!Push(e)]_GetAll
  BY NextStorage DEF IInv
<1> QED
  BY <1>1, <1>2, Inductive, PTL DEF Spec, LogImplemented, Recent!LogSpec

(* GetByCategory returns exactly the stored measurements of a category,    *)
(* each once, through every eviction and its shuffling of the slices, and  *)
(* GetStatistics counts as many.                                           *)
THEOREM IndexAlwaysExact == Spec => []CategoryIndexExact
<1>1. IInv => CategoryIndexExact
  <2> SUFFICES ASSUME IInv PROVE CategoryIndexExact
    OBVIOUS
  <2>1. StorageTypeOK /\ IndexExact /\ StorageInv
    BY DEF IInv, StorageInv
  <2>2. \A c \in Categories : GetStatistics.CategoryCounts[c] = Len(byCategory[c])
    BY <2>1, IndexCounted
  <2> QED
    BY <2>1, <2>2 DEF IndexExact, CategoryIndexExact, GetByCategory
<1> QED
  BY Inductive, <1>1, PTL

(* Outside a Reset no more measurements are stored than the metrics count  *)
(* or are about to, for any number of workers that straddle the Reset.     *)
THEOREM StoredAlwaysCounted == Spec => []StoredCounted
<1>1. IInv => StoredCounted
  BY DEF IInv, Ahead, StoredCounted
<1> QED
  BY Inductive, <1>1, PTL

(* The profiler ends the process only after a second Start or a Reset.     *)
THEOREM CrashExplained == Spec => []CrashNeedsRestartOrReset
<1>1. IInv => CrashNeedsRestartOrReset
  BY DEF IInv, Lifecycle
<1> QED
  BY Inductive, <1>1, PTL
=============================================================================
