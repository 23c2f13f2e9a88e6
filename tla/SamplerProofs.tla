--------------------------- MODULE SamplerProofs ---------------------------
(***************************************************************************)
(* Proofs about Sampler for any array, any shares, any retention and any   *)
(* number of cycles, failed statements and crashes.                        *)
(***************************************************************************)
EXTENDS Sampler, FiniteSetTheorems, WellFoundedInduction, TLAPS

(***************************************************************************)
(* The first and the last place of a set of places.                        *)
(***************************************************************************)
LEMMA LeastOf ==
    ASSUME NEW S, S \subseteq Nat, S # {}
    PROVE  Min(S) \in S /\ \A x \in S : Min(S) <= x
<1> DEFINE R == OpToRel(<, Nat)
<1>1. \E x \in S : \A y \in S : ~(<<y, x>> \in R)
  BY NatLessThanWellFounded, WFMin
<1>2. \A x, y \in Nat : <<y, x>> \in R <=> y < x
  BY DEF OpToRel
<1>3. \E x \in S : \A y \in S : ~(y < x)
  BY <1>1, <1>2, Zenon
<1>4. \E x \in S : \A y \in S : x <= y
  BY <1>3
<1> QED
  BY <1>4 DEF Min

\* The greatest element is the least upper bound.
LEMMA GreatestOf ==
    ASSUME NEW n \in Nat, NEW S, S \subseteq 1..n, S # {}
    PROVE  Max(S) \in S /\ \A x \in S : x <= Max(S)
<1> DEFINE U == {u \in Nat : \A x \in S : x <= u}
<1>1. U \subseteq Nat /\ n \in U
  OBVIOUS
<1>2. Min(U) \in U /\ \A u \in U : Min(U) <= u
  BY <1>1, LeastOf
<1>3. PICK m \in Nat : (\A x \in S : x <= m) /\ \A u \in U : m <= u
  BY <1>2
<1>4. m \in S
  <2> SUFFICES ASSUME m \notin S
               PROVE  FALSE
    OBVIOUS
  <2>1. PICK x \in S : x \in 1..n
    OBVIOUS
  <2>2. \A y \in S : y <= m - 1 /\ m - 1 \in Nat
    BY <1>3
  <2>3. m - 1 \in U
    BY <2>1, <2>2
  <2> QED
    BY <1>3, <2>3
<1> HIDE DEF U
<1>5. \E x \in S : \A y \in S : x >= y
  BY <1>3, <1>4
<1> QED
  BY <1>5 DEF Max

(***************************************************************************)
(* A step that appends to series.                                          *)
(***************************************************************************)
Samples == SamplerTypes /\ OldestFirst /\ TransitionLog /\ CountersGrow

\* What holds of a row r that is appended to series k.
Fitting(k, r) ==
    /\ r \in Row(k) /\ r.at = now
    /\ k = ArrayKey => samples[k] = <<>> \/ samples[k][Len(samples[k])].value # r.value
    /\ \A d \in Counters : k = <<"smart.reallocated", d>> /\ r.ok => r.value = count'[d]

Grown(k) == samples'[k] = samples[k] \/ \E r : Fitting(k, r) /\ samples'[k] = Append(samples[k], r)

Growth ==
    /\ DOMAIN samples' = Keys /\ \A k \in Keys : Grown(k)
    /\ now' = now /\ count' \in [Counters -> Nat] /\ \A d \in Counters : count[d] <= count'[d]

SeriesTypes == DOMAIN samples = Keys /\ \A k \in Keys : samples[k] \in Seq(Row(k))

LEMMA RowsOf ==
    ASSUME SeriesTypes, NEW k \in Keys
    PROVE  /\ samples[k] \in Seq(Row(k)) /\ DOMAIN samples[k] = 1..Len(samples[k]) /\ Len(samples[k]) \in Nat
           /\ \A i \in DOMAIN samples[k] : samples[k][i] \in Row(k)
  BY DEF SeriesTypes

\* What appending does to a series.
LEMMA GrownRows ==
    ASSUME SeriesTypes, NEW k \in Keys, Grown(k)
    PROVE  /\ samples'[k] \in Seq(Row(k))
           /\ DOMAIN samples[k] \subseteq DOMAIN samples'[k]
           /\ \A i \in DOMAIN samples[k] : samples'[k][i] = samples[k][i]
           /\ \/ samples'[k] = samples[k]
              \/ /\ Len(samples'[k]) = Len(samples[k]) + 1
                 /\ DOMAIN samples'[k] = 1..Len(samples[k]) + 1
                 /\ Fitting(k, samples'[k][Len(samples[k]) + 1])
<1>0. samples[k] \in Seq(Row(k)) /\ DOMAIN samples[k] = 1..Len(samples[k]) /\ Len(samples[k]) \in Nat
  BY RowsOf
<1>1. CASE samples'[k] = samples[k]
  BY <1>0, <1>1
<1>2. ASSUME NEW r, Fitting(k, r), samples'[k] = Append(samples[k], r)
      PROVE  /\ samples'[k] \in Seq(Row(k))
             /\ DOMAIN samples[k] \subseteq DOMAIN samples'[k]
             /\ \A i \in DOMAIN samples[k] : samples'[k][i] = samples[k][i]
             /\ Len(samples'[k]) = Len(samples[k]) + 1
             /\ DOMAIN samples'[k] = 1..Len(samples[k]) + 1
             /\ samples'[k][Len(samples[k]) + 1] = r
  <2>1. r \in Row(k)
    BY <1>2 DEF Fitting
  <2> QED
    BY <1>0, <1>2, <2>1
<1> QED
  BY <1>1, <1>2 DEF Grown

LEMMA ArrayKeyIsKey == ArrayKey \in Keys
  BY DEF Keys

LEMMA CounterKey ==
    ASSUME NEW d \in Counters
    PROVE  <<"smart.reallocated", d>> \in Keys /\ <<"smart.reallocated", d>> # ArrayKey
<1>1. d \in Devices
  BY SamplerAssumption DEF Devices, Slots
<1> QED
  BY <1>1 DEF Keys, SmartSeries, ArrayKey

LEMMA GrowthStep ==
    ASSUME Samples, Growth
    PROVE  SeriesTypes' /\ OldestFirst' /\ TransitionLog' /\ CountersGrow'
<1>0. SeriesTypes /\ now \in Nat /\ now' = now
  BY DEF Samples, SamplerTypes, SeriesTypes, Growth
<1>1. SeriesTypes'
  BY <1>0, GrownRows DEF SeriesTypes, Growth
<1>2. OldestFirst'
  <2> SUFFICES ASSUME NEW k \in Keys, NEW i \in DOMAIN samples'[k], NEW j \in DOMAIN samples'[k]
               PROVE  samples'[k][i].at <= now /\ (i < j => samples'[k][i].at <= samples'[k][j].at)
    BY <1>0 DEF OldestFirst, Keys, Devices, Slots
  <2>1. Grown(k)
    BY DEF Growth
  <2>2. /\ \A x \in DOMAIN samples[k] : samples[k][x].at <= now /\ samples[k][x].at \in Nat
        /\ \A x, y \in DOMAIN samples[k] : x < y => samples[k][x].at <= samples[k][y].at
    BY <1>0, RowsOf DEF Samples, OldestFirst, Row
  <2>3. CASE samples'[k] = samples[k]
    BY <2>2, <2>3
  <2>4. CASE samples'[k] # samples[k]
    <3> DEFINE n == Len(samples[k])
    <3>1. /\ n \in Nat /\ DOMAIN samples[k] = 1..n /\ DOMAIN samples'[k] = 1..n + 1
          /\ \A x \in 1..n : samples'[k][x] = samples[k][x]
          /\ samples'[k][n + 1].at = now
      BY <1>0, <2>1, <2>4, GrownRows, RowsOf DEF Fitting
    <3> HIDE DEF n
    <3> QED
      BY <1>0, <2>2, <3>1
  <2> QED
    BY <2>3, <2>4
<1>3. TransitionLog'
  <2> DEFINE n == Len(samples[ArrayKey])
  <2>1. Grown(ArrayKey)
    BY ArrayKeyIsKey DEF Growth
  <2>2. CASE samples'[ArrayKey] = samples[ArrayKey]
    BY <2>2 DEF Samples, TransitionLog, ArrayKey
  <2>3. CASE samples'[ArrayKey] # samples[ArrayKey]
    <3>1. /\ n \in Nat /\ DOMAIN samples[ArrayKey] = 1..n /\ Len(samples'[ArrayKey]) = n + 1
          /\ \A x \in 1..n : samples'[ArrayKey][x] = samples[ArrayKey][x]
          /\ samples[ArrayKey] = <<>>
                \/ samples[ArrayKey][n].value # samples'[ArrayKey][n + 1].value
      BY <1>0, <2>1, <2>3, GrownRows, RowsOf, ArrayKeyIsKey DEF Fitting
    <3>2. samples[ArrayKey] = <<>> => n = 0
      OBVIOUS
    <3>3. \A i \in 1..n - 1 : samples[ArrayKey][i].value # samples[ArrayKey][i + 1].value
      BY DEF Samples, TransitionLog
    <3> HIDE DEF n
    <3>4. \A i \in 1..(n + 1) - 1 : samples'[ArrayKey][i].value # samples'[ArrayKey][i + 1].value
      <4> SUFFICES ASSUME NEW i \in 1..n
                   PROVE  samples'[ArrayKey][i].value # samples'[ArrayKey][i + 1].value
        BY <3>1
      <4>1. CASE i = n
        BY <3>1, <3>2, <4>1
      <4>2. CASE i # n
        <5>1. i \in 1..n - 1 /\ i + 1 \in 1..n
          BY <3>1, <4>2
        <5> QED
          BY <3>1, <3>3, <5>1
      <4> QED
        BY <4>1, <4>2
    <3> QED
      BY <3>1, <3>4 DEF TransitionLog, ArrayKey
  <2> QED
    BY <2>2, <2>3
<1>4. CountersGrow'
  <2> SUFFICES ASSUME NEW d \in Counters
               PROVE  LET rows == samples'[<<"smart.reallocated", d>>] IN
                        \A i \in DOMAIN rows : rows[i].ok =>
                            /\ rows[i].value \in Nat /\ rows[i].value <= count'[d]
                            /\ \A j \in DOMAIN rows : i < j /\ rows[j].ok => rows[i].value <= rows[j].value
    BY DEF CountersGrow
  <2>k. PICK k \in Keys : k = <<"smart.reallocated", d>>
    BY CounterKey
  <2>1. Grown(k) /\ count[d] \in Nat /\ count'[d] \in Nat /\ count[d] <= count'[d]
    BY DEF Growth, Samples, SamplerTypes
  <2>2. \A i \in DOMAIN samples[k] : samples[k][i].ok =>
            /\ samples[k][i].value \in Nat /\ samples[k][i].value <= count[d]
            /\ \A j \in DOMAIN samples[k] : i < j /\ samples[k][j].ok => samples[k][i].value <= samples[k][j].value
    BY <2>k DEF Samples, CountersGrow
  <2>3. CASE samples'[k] = samples[k]
    BY <2>k, <2>1, <2>2, <2>3
  <2>4. CASE samples'[k] # samples[k]
    <3> DEFINE n == Len(samples[k])
    <3>1. /\ n \in Nat /\ DOMAIN samples[k] = 1..n /\ DOMAIN samples'[k] = 1..n + 1
          /\ \A x \in 1..n : samples'[k][x] = samples[k][x]
          /\ samples'[k][n + 1].ok => samples'[k][n + 1].value = count'[d]
      BY <1>0, <2>k, <2>1, <2>4, GrownRows, RowsOf DEF Fitting
    <3> HIDE DEF n
    <3>2. ASSUME NEW i \in 1..n + 1, samples'[k][i].ok
          PROVE  samples'[k][i].value \in Nat /\ samples'[k][i].value <= count'[d]
      BY <2>1, <2>2, <3>1, <3>2
    <3>3. ASSUME NEW i \in 1..n + 1, NEW j \in 1..n + 1, samples'[k][i].ok, samples'[k][j].ok, i < j
          PROVE  samples'[k][i].value <= samples'[k][j].value
      <4>1. i \in 1..n
        BY <3>1, <3>3
      <4>2. CASE j = n + 1
        <5>1. samples'[k][j].value = count'[d]
          BY <3>1, <3>3, <4>2
        <5> QED
          BY <3>2, <3>3, <5>1
      <4>3. CASE j \in 1..n
        BY <2>2, <3>1, <3>3, <4>1, <4>3
      <4> QED
        BY <3>1, <4>2, <4>3
    <3> QED
      BY <2>k, <3>1, <3>2, <3>3
  <2> QED
    BY <2>3, <2>4
<1> QED
  BY <1>1, <1>2, <1>3, <1>4

\* RecordMetricSample, for at most one row of each series: a row is stored or
\* the cycle remembers that it was refused.
LEMMA RecordEffect ==
    ASSUME SeriesTypes, NEW rows, DOMAIN rows \subseteq Keys, RecordMetricSample(rows),
           \A k \in DOMAIN rows : rows[k] = <<>> \/ \E r : rows[k] = <<r>> /\ Fitting(k, r)
    PROVE  /\ DOMAIN samples' = Keys /\ \A k \in Keys : Grown(k)
           /\ unstored \subseteq unstored'
           /\ \A k \in DOMAIN rows : k \in unstored' \/ samples'[k] = samples[k] \o rows[k]
<1>1. PICK lost : /\ unstored' = unstored \cup lost
                  /\ samples' = [k \in Keys |-> IF k \in DOMAIN rows \ lost
                                                THEN samples[k] \o rows[k] ELSE samples[k]]
  BY DEF RecordMetricSample
<1>2. ASSUME NEW k \in Keys
      PROVE  Grown(k)
  <2>1. samples[k] \in Seq(Row(k))
    BY DEF SeriesTypes
  <2>2. CASE k \in DOMAIN rows \ lost
    <3>1. samples'[k] = samples[k] \o rows[k]
      BY <1>1, <2>2
    <3>2. CASE rows[k] = <<>>
      <4>1. samples[k] \o <<>> = samples[k]
        BY <2>1
      <4> QED
        BY <3>1, <3>2, <4>1 DEF Grown
    <3>3. ASSUME NEW r, rows[k] = <<r>>, Fitting(k, r)
          PROVE  Grown(k)
      <4>1. r \in Row(k)
        BY <3>3 DEF Fitting
      <4>2. samples[k] \o <<r>> = Append(samples[k], r)
        BY <2>1, <4>1
      <4> QED
        BY <3>1, <3>3, <4>2 DEF Grown
    <3> QED
      BY <2>2, <3>2, <3>3
  <2>3. CASE k \notin DOMAIN rows \ lost
    BY <1>1, <2>3 DEF Grown
  <2> QED
    BY <2>2, <2>3
<1> QED
  BY <1>1, <1>2

\* A device that is accounted for stays so during the cycle.
LEMMA AccountedStays ==
    ASSUME SeriesTypes, Growth, unstored \subseteq unstored', NEW s \in Slots, Accounted(s)
    PROVE  Accounted(s)'
<1>1. PICK k : k = <<"smart.temperature", DeviceOf[s]>>
  OBVIOUS
<1>2. k \in Keys
  BY <1>1 DEF Keys, Devices, SmartSeries
<1>3. DOMAIN samples[k] \subseteq DOMAIN samples'[k] /\ \A i \in DOMAIN samples[k] : samples'[k][i] = samples[k][i]
  BY <1>2, GrownRows DEF Growth
<1>4. k \in unstored \/ \E i \in DOMAIN samples[k] : samples[k][i].at = now
  BY <1>1 DEF Accounted
<1>5. k \in unstored' \/ \E i \in DOMAIN samples'[k] : samples'[k][i].at = now'
  BY <1>3, <1>4 DEF Growth
<1> QED
  BY <1>1, <1>5 DEF Accounted

LEMMA SamplesKept ==
    ASSUME Samples, UNCHANGED <<count, samples>>, now' \in {now, now + 1}
    PROVE  SeriesTypes' /\ OldestFirst' /\ TransitionLog' /\ CountersGrow'
<1>0. SeriesTypes /\ now \in Nat
  BY DEF Samples, SamplerTypes, SeriesTypes
<1>1. SeriesTypes'
  BY <1>0 DEF SeriesTypes
<1>2. TransitionLog' /\ CountersGrow'
  BY DEF Samples, TransitionLog, CountersGrow
<1>3. OldestFirst'
  <2> SUFFICES ASSUME NEW k \in Keys, NEW i \in DOMAIN samples[k], NEW j \in DOMAIN samples[k]
               PROVE  samples[k][i].at <= now' /\ (i < j => samples[k][i].at <= samples[k][j].at)
    BY DEF OldestFirst
  <2>1. samples[k][i].at \in Nat
    BY <1>0, RowsOf DEF Row
  <2> QED
    BY <1>0, <2>1 DEF Samples, OldestFirst
<1> QED
  BY <1>1, <1>2, <1>3

(***************************************************************************)
(* One lemma per step of sampleOnce.                                       *)
(***************************************************************************)
LEMMA SamplerParts ==
    SamplerInv <=> Samples /\ CycleInv
  BY DEF SamplerInv, Samples

\* What a step owes, in the order the lemmas below give it.
LEMMA Collect ==
    ASSUME SeriesTypes', OldestFirst', TransitionLog', CountersGrow', CycleInv',
           now' \in Nat, count' \in [Counters -> Nat],
           at' \in {"idle", "array", "state", "disks", "shares", "prune"},
           snap' \in [state : ArrayStates, slots : SUBSET Slots], todo' \subseteq snap'.slots
    PROVE  SamplerInv'
  BY DEF SamplerInv, SamplerTypes, SeriesTypes

LEMMA StartCycleStep ==
    ASSUME SamplerInv, StartCycle
    PROVE  SamplerInv'
<1>0. /\ Samples /\ CycleInv /\ now \in Nat /\ count \in [Counters -> Nat] /\ todo \subseteq snap.slots
      /\ snap \in [state : ArrayStates, slots : SUBSET Slots]
  BY SamplerParts DEF SamplerInv, SamplerTypes
<1>1. SeriesTypes' /\ OldestFirst' /\ TransitionLog' /\ CountersGrow'
  BY <1>0, SamplesKept DEF StartCycle
<1>2. todo' = {} /\ at' = "array" /\ snap'.slots = {} /\ snap' \in [state : ArrayStates, slots : SUBSET Slots]
  BY <1>0 DEF StartCycle, CycleInv
<1>3. CycleInv'
  BY <1>2 DEF CycleInv
<1> QED
  BY <1>0, <1>1, <1>2, <1>3, Collect DEF StartCycle

LEMMA ReadArrayStep ==
    ASSUME SamplerInv, ReadArray
    PROVE  SamplerInv'
<1>0. /\ Samples /\ CycleInv /\ now \in Nat /\ count \in [Counters -> Nat] /\ todo \subseteq snap.slots
      /\ snap \in [state : ArrayStates, slots : SUBSET Slots]
  BY SamplerParts DEF SamplerInv, SamplerTypes
<1>1. SeriesTypes' /\ OldestFirst' /\ TransitionLog' /\ CountersGrow'
  BY <1>0, SamplesKept DEF ReadArray
<1>2. \/ at' = "shares" /\ snap' = snap /\ todo' = todo
      \/ \E source : \E state \in ArrayStates :
            /\ at' = "state" /\ snap' = [state |-> state, slots |-> DisksFrom(source, DeviceOf)]
            /\ todo' = snap'.slots
  BY DEF ReadArray
<1>3. \A source : DisksFrom(source, DeviceOf) \subseteq Slots
  BY DEF DisksFrom, readArrayStateFromEmhttp, mapArrayDisks, Slots
<1>4. at = "array"
  BY DEF ReadArray
<1>5. /\ at' \in {"shares", "state"} /\ todo' \subseteq snap'.slots
      /\ snap' \in [state : ArrayStates, slots : SUBSET Slots]
  BY <1>0, <1>2, <1>3
<1>6. CycleInv'
  BY <1>0, <1>2, <1>4 DEF CycleInv
<1> QED
  BY <1>0, <1>1, <1>5, <1>6, Collect DEF ReadArray

LEMMA ArrayStateStep ==
    ASSUME SamplerInv, sampleArrayState
    PROVE  SamplerInv'
<1>0. /\ Samples /\ CycleInv /\ SeriesTypes /\ now \in Nat /\ count \in [Counters -> Nat]
      /\ todo \subseteq snap.slots /\ snap \in [state : ArrayStates, slots : SUBSET Slots]
  BY SamplerParts DEF SamplerInv, SamplerTypes, SeriesTypes
<1>1. at = "state" /\ at' = "disks" /\ UNCHANGED <<now, count, snap, todo>>
  BY DEF sampleArrayState
<1>2. DOMAIN samples' = Keys /\ \A k \in Keys : Grown(k)
  <2>1. CASE UNCHANGED samples
    BY <1>0, <2>1 DEF Grown, SeriesTypes
  <2>2. ASSUME RecordMetricSample([k \in {ArrayKey} |-> <<Value(snap.state)>>]),
               ~(samples[ArrayKey] # <<>> /\ LatestMetricSample(ArrayKey).value = snap.state)
        PROVE  DOMAIN samples' = Keys /\ \A k \in Keys : Grown(k)
    <3> DEFINE rows == [k \in {ArrayKey} |-> <<Value(snap.state)>>]
               r == Value(snap.state)
    <3>1. r \in Row(ArrayKey) /\ r.at = now /\ r.value = snap.state
      BY <1>0 DEF Value, Row
    <3>2. samples[ArrayKey] = <<>> \/ samples[ArrayKey][Len(samples[ArrayKey])].value # snap.state
      BY <2>2 DEF LatestMetricSample, Last
    <3>3. \A d \in Counters : ArrayKey # <<"smart.reallocated", d>>
      BY CounterKey
    <3>4. Fitting(ArrayKey, r)
      BY <3>1, <3>2, <3>3 DEF Fitting
    <3>5. DOMAIN rows \subseteq Keys /\ \A k \in DOMAIN rows : rows[k] = <<r>> /\ Fitting(k, r)
      BY <3>4, ArrayKeyIsKey
    <3> HIDE DEF r
    <3>6. RecordMetricSample(rows)
      BY <2>2
    <3> HIDE DEF rows
    <3> QED
      BY <1>0, <3>5, <3>6, RecordEffect
  <2> QED
    BY <2>1, <2>2 DEF sampleArrayState
<1>3. Growth
  BY <1>0, <1>1, <1>2 DEF Growth
<1>4. SeriesTypes' /\ OldestFirst' /\ TransitionLog' /\ CountersGrow'
  BY <1>0, <1>3, GrowthStep
<1>5. CycleInv'
  BY <1>0, <1>1 DEF CycleInv
<1> QED
  BY <1>0, <1>1, <1>4, <1>5, Collect

\* What sampleSMART adds to a series: at most one row, which fits, and always
\* one to the temperature.
LEMMA SmartRowsFit ==
    ASSUME SamplerTypes, NEW d \in Devices, NEW bits, NEW t \in Temperatures,
           NEW series \in SmartSeries, count' \in [Counters -> Nat]
    PROVE  \/ SmartRows(series, d, bits, t) = <<>> /\ series # "smart.temperature"
           \/ \E r : SmartRows(series, d, bits, t) = <<r>> /\ Fitting(<<series, d>>, r)
<1> DEFINE rows == SmartRows(series, d, bits, t)
<1>0. now \in Nat
  BY DEF SamplerTypes
<1>k. PICK k : k = <<series, d>>
  OBVIOUS
<1>1. k # ArrayKey
  BY <1>k DEF SmartSeries, ArrayKey
<1>2. \A b \in BOOLEAN, v \in Int : [ok |-> b, value |-> v, at |-> now] \in Row(k)
  BY <1>0, <1>1 DEF Row
<1>3. ASSUME NEW v \in Int, \A c \in Counters : k = <<"smart.reallocated", c>> => v = count'[c]
      PROVE  Fitting(k, Value(v))
  BY <1>0, <1>1, <1>2, <1>3 DEF Fitting, Value
<1>4. Fitting(k, recordSMARTGap)
  <2>1. recordSMARTGap \in Row(k)
    <3>1. \A v \in Int : [ok |-> FALSE, value |-> v, at |-> now] \in Row(k)
      BY <1>2
    <3> QED
      BY <3>1 DEF recordSMARTGap
  <2>2. recordSMARTGap.at = now /\ ~recordSMARTGap.ok
    BY DEF recordSMARTGap
  <2> QED
    BY <1>1, <2>1, <2>2 DEF Fitting
<1>5. CASE runSmartctl(bits) # "ok"
  <2>1. rows = <<recordSMARTGap>>
    BY <1>5 DEF SmartRows
  <2> HIDE DEF rows
  <2> QED
    BY <1>k, <1>4, <2>1 DEF rows
<1>6. CASE runSmartctl(bits) = "ok" /\ series = "smart.temperature"
  <2>1. rows = recordSMARTTemperature(t)
    BY <1>6 DEF SmartRows
  <2>2. CASE Plausible(t)
    <3>1. t \in Int
      BY <2>2, SamplerAssumption DEF Plausible
    <3>2. Fitting(k, Value(t))
      BY <1>k, <1>3, <1>6, <3>1
    <3>3. rows = <<Value(t)>>
      BY <2>1, <2>2 DEF recordSMARTTemperature
    <3> HIDE DEF rows
    <3> QED
      BY <1>k, <3>2, <3>3 DEF rows
  <2>3. CASE ~Plausible(t)
    <3>1. rows = <<recordSMARTGap>>
      BY <2>1, <2>3 DEF recordSMARTTemperature
    <3> HIDE DEF rows
    <3> QED
      BY <1>k, <1>4, <3>1 DEF rows
  <2> QED
    BY <2>2, <2>3
<1>7. CASE runSmartctl(bits) = "ok" /\ series = "smart.reallocated"
  <2>1. rows = IF d \in Counters THEN <<Value(count'[d])>> ELSE <<>>
    BY <1>7 DEF SmartRows
  <2>2. CASE d \in Counters
    <3>1. count'[d] \in Int
      BY <2>2
    <3>2. Fitting(k, Value(count'[d]))
      BY <1>k, <1>3, <3>1
    <3>3. rows = <<Value(count'[d])>>
      BY <2>1, <2>2
    <3> HIDE DEF rows
    <3> QED
      BY <1>k, <3>2, <3>3 DEF rows
  <2>3. CASE d \notin Counters
    BY <1>7, <2>1, <2>3
  <2> QED
    BY <2>2, <2>3
<1> QED
  BY <1>5, <1>6, <1>7 DEF SmartSeries

\* A capacity row fits its series.
LEMMA CapacityFits ==
    ASSUME SamplerTypes, NEW series \in {"capacity.disk", "capacity.share"},
           NEW x \in Slots \cup Shares, NEW key
    PROVE  Fitting(<<series, x>>, Value(kibField(Fields[x], key)))
<1>1. kibField(Fields[x], key) \in Int
  <2>1. key \in DOMAIN Fields[x] => Fields[x][key] \in Nat
    BY SamplerAssumption DEF Slots
  <2> QED
    BY <2>1 DEF kibField
<1>2. <<series, x>> # ArrayKey /\ \A d \in Counters : <<series, x>> # <<"smart.reallocated", d>>
  BY DEF ArrayKey
<1>3. now \in Nat
  BY DEF SamplerTypes
<1> HIDE DEF kibField
<1> QED
  BY <1>1, <1>2, <1>3 DEF Fitting, Value, Row

LEMMA DiskStep ==
    ASSUME SamplerInv, NEW s \in Slots, sampleDisk(s)
    PROVE  SamplerInv'
<1> DEFINE d == DeviceOf[s]
           keys == {<<"capacity.disk", s>>} \cup (SmartSeries \X {d})
<1>0. /\ Samples /\ CycleInv /\ SeriesTypes /\ SamplerTypes /\ now \in Nat /\ count \in [Counters -> Nat]
      /\ todo \subseteq snap.slots /\ snap \in [state : ArrayStates, slots : SUBSET Slots]
  BY SamplerParts DEF SamplerInv, SamplerTypes, SeriesTypes
<1>1. at = "disks" /\ s \in todo /\ todo' = todo \ {s} /\ UNCHANGED <<now, at, snap>>
  BY DEF sampleDisk
<1>2. count' \in [Counters -> Nat] /\ \A c \in Counters : count[c] <= count'[c]
  <2>1. PICK grown \in [Counters -> 0..MaxCount] : count' = grown /\ \A c \in Counters : grown[c] >= count[c]
    BY DEF sampleDisk
  <2>2. \A c \in Counters : grown[c] \in Nat /\ count[c] \in Nat
    BY <1>0, <2>1, SamplerAssumption
  <2> QED
    BY <2>1, <2>2
<1>3. d \in Devices /\ <<"smart.temperature", d>> \in keys /\ keys \subseteq Keys
  BY DEF Devices, Keys, SmartSeries
<1>4. PICK t \in Temperatures : \E bits :
          RecordMetricSample([k \in keys |->
              IF k[1] = "capacity.disk" THEN recordCapacity(Fields[s], "fsUsed")
              ELSE SmartRows(k[1], d, bits, t)])
  BY DEF sampleDisk
<1>b. PICK bits :
          RecordMetricSample([k \in keys |->
              IF k[1] = "capacity.disk" THEN recordCapacity(Fields[s], "fsUsed")
              ELSE SmartRows(k[1], d, bits, t)])
  BY <1>4
<1> DEFINE rows == [k \in keys |->
              IF k[1] = "capacity.disk" THEN recordCapacity(Fields[s], "fsUsed")
              ELSE SmartRows(k[1], d, bits, t)]
<1>5. ASSUME NEW k \in keys
      PROVE  /\ rows[k] = <<>> \/ \E r : rows[k] = <<r>> /\ Fitting(k, r)
             /\ k[1] = "smart.temperature" => rows[k] # <<>>
  <2>1. CASE k = <<"capacity.disk", s>>
    <3>1. rows[k] = <<Value(kibField(Fields[s], "fsUsed"))>> /\ k[1] = "capacity.disk"
      BY <2>1 DEF recordCapacity
    <3> HIDE DEF rows
    <3>2. Fitting(k, Value(kibField(Fields[s], "fsUsed")))
      BY <1>0, <2>1, CapacityFits
    <3> QED
      BY <3>1, <3>2
  <2>2. CASE k \in SmartSeries \X {d}
    <3>0. k[1] \in SmartSeries /\ k = <<k[1], d>>
      BY <2>2
    <3>1. PICK series \in SmartSeries : k = <<series, d>>
      BY <3>0
    <3>2. k[1] = series /\ series # "capacity.disk"
      BY <3>1 DEF SmartSeries
    <3>3. rows[k] = SmartRows(series, d, bits, t)
      BY <3>2
    <3> HIDE DEF rows, d
    <3>4. \/ SmartRows(series, d, bits, t) = <<>> /\ series # "smart.temperature"
          \/ \E r : SmartRows(series, d, bits, t) = <<r>> /\ Fitting(<<series, d>>, r)
      BY <1>0, <1>2, <1>3, SmartRowsFit
    <3> QED
      BY <3>1, <3>2, <3>3, <3>4
  <2> QED
    BY <2>1, <2>2
<1>6. DOMAIN rows = keys /\ RecordMetricSample(rows)
  BY <1>b
<1> HIDE DEF rows, keys
<1>7. /\ DOMAIN samples' = Keys /\ \A k \in Keys : Grown(k)
      /\ unstored \subseteq unstored'
      /\ \A k \in keys : k \in unstored' \/ samples'[k] = samples[k] \o rows[k]
  BY <1>0, <1>3, <1>5, <1>6, RecordEffect
<1>8. Growth
  BY <1>1, <1>2, <1>7 DEF Growth
<1>9. SeriesTypes' /\ OldestFirst' /\ TransitionLog' /\ CountersGrow'
  BY <1>0, <1>8, GrowthStep
<1>10. Accounted(s)'
  <2>1. PICK k \in keys : k = <<"smart.temperature", d>>
    BY <1>3
  <2>2. k \in Keys /\ samples[k] \in Seq(Row(k))
    BY <1>0, <1>3, <2>1 DEF SeriesTypes
  <2>3. CASE k \in unstored'
    BY <2>1, <2>3 DEF Accounted
  <2>4. CASE samples'[k] = samples[k] \o rows[k]
    <3>1. PICK r : rows[k] = <<r>> /\ Fitting(k, r)
      BY <1>5, <2>1
    <3>2. r \in Row(k) /\ r.at = now
      BY <3>1 DEF Fitting
    <3>3. samples'[k] = Append(samples[k], r)
      BY <2>2, <2>4, <3>1, <3>2
    <3>4. Len(samples[k]) + 1 \in DOMAIN samples'[k] /\ samples'[k][Len(samples[k]) + 1] = r
      BY <2>2, <3>2, <3>3
    <3>5. \E i \in DOMAIN samples'[k] : samples'[k][i].at = now'
      BY <1>1, <3>2, <3>4
    <3> QED
      BY <2>1, <3>5 DEF Accounted
  <2> QED
    BY <1>7, <2>3, <2>4
<1>11. CycleInv'
  <2>1. ASSUME NEW x \in snap.slots \ todo'
        PROVE  Accounted(x)'
    <3>1. CASE x = s
      BY <1>10, <3>1
    <3>2. CASE x # s
      <4>1. Accounted(x) /\ x \in Slots
        BY <1>0, <1>1, <3>2 DEF CycleInv
      <4> QED
        BY <1>0, <1>7, <1>8, <4>1, AccountedStays
    <3> QED
      BY <3>1, <3>2
  <2> QED
    BY <1>1, <2>1 DEF CycleInv
<1> QED
  BY <1>0, <1>1, <1>2, <1>9, <1>11, Collect

LEMMA SharesStep ==
    ASSUME SamplerInv, SampleShares
    PROVE  SamplerInv'
<1>0. /\ Samples /\ CycleInv /\ SeriesTypes /\ SamplerTypes /\ now \in Nat /\ count \in [Counters -> Nat]
      /\ todo \subseteq snap.slots /\ snap \in [state : ArrayStates, slots : SUBSET Slots]
  BY SamplerParts DEF SamplerInv, SamplerTypes, SeriesTypes
<1>1. /\ at = "shares" \/ (at = "disks" /\ todo = {})
      /\ at' = "prune" /\ UNCHANGED <<now, count, snap, todo>>
  BY DEF SampleShares
<1>2. DOMAIN samples' = Keys /\ (\A k \in Keys : Grown(k)) /\ unstored \subseteq unstored'
  <2> DEFINE rows == [k \in {"capacity.share"} \X Shares |-> recordCapacity(Fields[k[2]], "used")]
  <2>1. CASE UNCHANGED <<samples, unstored>>
    BY <1>0, <2>1 DEF Grown, SeriesTypes
  <2>2. CASE RecordMetricSample(rows)
    <3>1. DOMAIN rows = {"capacity.share"} \X Shares /\ DOMAIN rows \subseteq Keys
      BY DEF Keys
    <3>2. ASSUME NEW k \in DOMAIN rows
          PROVE  \E r : rows[k] = <<r>> /\ Fitting(k, r)
      <4>1. k[2] \in Shares /\ k = <<"capacity.share", k[2]>>
        BY <3>1
      <4>2. rows[k] = <<Value(kibField(Fields[k[2]], "used"))>>
        BY <3>1 DEF recordCapacity
      <4>3. Fitting(k, Value(kibField(Fields[k[2]], "used")))
        BY <1>0, <4>1, CapacityFits
      <4> HIDE DEF rows
      <4> QED
        BY <4>2, <4>3
    <3> HIDE DEF rows
    <3> QED
      BY <1>0, <2>2, <3>1, <3>2, RecordEffect
  <2> QED
    BY <2>1, <2>2 DEF SampleShares
<1>3. Growth
  BY <1>0, <1>1, <1>2 DEF Growth
<1>4. SeriesTypes' /\ OldestFirst' /\ TransitionLog' /\ CountersGrow'
  BY <1>0, <1>3, GrowthStep
<1>5. CycleInv'
  <2>1. todo = {}
    BY <1>0, <1>1 DEF CycleInv
  <2>2. ASSUME NEW x \in snap.slots
        PROVE  Accounted(x)'
    <3>1. Accounted(x) /\ x \in Slots
      BY <1>0, <1>1, <2>1 DEF CycleInv
    <3> QED
      BY <1>0, <1>2, <1>3, <3>1, AccountedStays
  <2> QED
    BY <1>1, <2>1, <2>2 DEF CycleInv
<1> QED
  BY <1>0, <1>1, <1>4, <1>5, Collect

\* What is left of a series is empty or its end.
LEMMA SinceIsATail ==
    ASSUME NEW R, NEW rows \in Seq(R), NEW cutoff, Since(rows, cutoff) # <<>>
    PROVE  \E m \in DOMAIN rows :
              /\ Since(rows, cutoff) \in Seq(R)
              /\ Len(Since(rows, cutoff)) = Len(rows) - m + 1
              /\ \A i \in 1..Len(rows) - m + 1 : i + m - 1 \in DOMAIN rows /\ Since(rows, cutoff)[i] = rows[i + m - 1]
<1> DEFINE kept == {i \in DOMAIN rows : rows[i].at >= cutoff}
<1>1. Len(rows) \in Nat /\ DOMAIN rows = 1..Len(rows)
  OBVIOUS
<1>2. kept # {} /\ Since(rows, cutoff) = SubSeq(rows, Min(kept), Len(rows))
  BY DEF Since
<1>3. Min(kept) \in kept
  <2>1. kept \subseteq Nat
    BY <1>1
  <2> HIDE DEF kept
  <2> QED
    BY <1>2, <2>1, LeastOf
<1>4. PICK m \in DOMAIN rows : m = Min(kept)
  BY <1>3
<1>5. Since(rows, cutoff) = SubSeq(rows, m, Len(rows))
  BY <1>2, <1>4
<1> HIDE DEF kept
<1>6. /\ SubSeq(rows, m, Len(rows)) \in Seq(R)
      /\ Len(SubSeq(rows, m, Len(rows))) = Len(rows) - m + 1
      /\ \A i \in 1..Len(rows) - m + 1 :
            i + m - 1 \in DOMAIN rows /\ SubSeq(rows, m, Len(rows))[i] = rows[i + m - 1]
  BY <1>1
<1> QED
  BY <1>5, <1>6

\* In a series that is in the order of its times, what is left is exactly what
\* the statement's condition keeps.
LEMMA PruneIsExact ==
    ASSUME NEW R, NEW rows \in Seq(R), NEW cutoff \in Int, \A r \in R : r.at \in Nat,
           \A i, j \in DOMAIN rows : i < j => rows[i].at <= rows[j].at,
           {i \in DOMAIN rows : rows[i].at >= cutoff} # {}
    PROVE  LET kept == {i \in DOMAIN rows : rows[i].at >= cutoff}
           IN  Since(rows, cutoff) = SubSeq(rows, Min(kept), Len(rows)) /\ kept = Min(kept)..Len(rows)
<1> DEFINE kept == {i \in DOMAIN rows : rows[i].at >= cutoff}
<1>1. Len(rows) \in Nat /\ DOMAIN rows = 1..Len(rows) /\ \A i \in DOMAIN rows : rows[i].at \in Nat
  OBVIOUS
<1>2. Min(kept) \in kept /\ \A i \in kept : Min(kept) <= i
  <2>1. kept \subseteq Nat /\ kept # {}
    BY <1>1
  <2> HIDE DEF kept
  <2> QED
    BY <2>1, LeastOf
<1>3. PICK m \in DOMAIN rows : m = Min(kept) /\ rows[m].at >= cutoff /\ \A i \in kept : m <= i
  BY <1>2
<1>4. kept = m..Len(rows)
  <2>1. ASSUME NEW i \in m..Len(rows)
        PROVE  i \in kept
    <3>1. i \in DOMAIN rows /\ (i = m \/ m < i)
      BY <1>1
    <3> QED
      BY <1>1, <1>3, <3>1
  <2>2. \A i \in kept : i \in m..Len(rows)
    BY <1>1, <1>3
  <2> QED
    BY <2>1, <2>2
<1> QED
  BY <1>3, <1>4 DEF Since

LEMMA PruneStep ==
    ASSUME SamplerInv, PruneMetricSamples
    PROVE  SamplerInv'
<1>0. /\ Samples /\ CycleInv /\ SeriesTypes /\ now \in Nat /\ count \in [Counters -> Nat]
      /\ todo \subseteq snap.slots /\ snap \in [state : ArrayStates, slots : SUBSET Slots]
  BY SamplerParts DEF SamplerInv, SamplerTypes, SeriesTypes
<1>1. at = "prune" /\ at' = "idle" /\ UNCHANGED <<now, count, snap, todo>>
  BY DEF PruneMetricSamples
<1>2. CycleInv'
  BY <1>0, <1>1 DEF CycleInv
<1>3. CASE UNCHANGED samples
  <2>1. SeriesTypes' /\ OldestFirst' /\ TransitionLog' /\ CountersGrow'
    BY <1>0, <1>1, <1>3, SamplesKept
  <2> QED
    BY <1>0, <1>1, <1>2, <2>1, Collect
<1>4. CASE samples' = [k \in Keys |-> Since(samples[k], now - Retention)]
  <2>1. ASSUME NEW k \in Keys
        PROVE  \/ samples'[k] = <<>>
               \/ \E m \in DOMAIN samples[k] :
                     /\ samples'[k] \in Seq(Row(k))
                     /\ DOMAIN samples'[k] = 1..Len(samples[k]) - m + 1
                     /\ Len(samples'[k]) = Len(samples[k]) - m + 1
                     /\ \A i \in 1..Len(samples[k]) - m + 1 :
                           i + m - 1 \in DOMAIN samples[k] /\ samples'[k][i] = samples[k][i + m - 1]
    <3>1. samples'[k] = Since(samples[k], now - Retention) /\ samples[k] \in Seq(Row(k))
      BY <1>0, <1>4 DEF SeriesTypes
    <3>2. CASE samples'[k] # <<>>
      <4>1. PICK m \in DOMAIN samples[k] :
                /\ samples'[k] \in Seq(Row(k))
                /\ Len(samples'[k]) = Len(samples[k]) - m + 1
                /\ \A i \in 1..Len(samples[k]) - m + 1 :
                      i + m - 1 \in DOMAIN samples[k] /\ samples'[k][i] = samples[k][i + m - 1]
        <5>1. PICK rows, R, c : rows = samples[k] /\ R = Row(k) /\ c = now - Retention
          OBVIOUS
        <5>2. rows \in Seq(R) /\ Since(rows, c) # <<>> /\ samples'[k] = Since(rows, c)
          BY <3>1, <3>2, <5>1
        <5>3. \E m \in DOMAIN rows :
                 /\ Since(rows, c) \in Seq(R)
                 /\ Len(Since(rows, c)) = Len(rows) - m + 1
                 /\ \A i \in 1..Len(rows) - m + 1 :
                       i + m - 1 \in DOMAIN rows /\ Since(rows, c)[i] = rows[i + m - 1]
          BY <5>2, SinceIsATail
        <5> QED
          BY <5>1, <5>2, <5>3
      <4>2. DOMAIN samples'[k] = 1..Len(samples[k]) - m + 1
        BY <4>1
      <4> QED
        BY <4>1, <4>2
    <3> QED
      BY <3>2
  <2>2. SeriesTypes'
    <3>1. \A k \in Keys : samples'[k] \in Seq(Row(k))
      <4>1. \A k \in Keys : <<>> \in Seq(Row(k))
        OBVIOUS
      <4> QED
        BY <2>1, <4>1
    <3> QED
      BY <1>4, <3>1 DEF SeriesTypes
  <2>3. OldestFirst'
    <3> SUFFICES ASSUME NEW k \in Keys, NEW i \in DOMAIN samples'[k], NEW j \in DOMAIN samples'[k]
                 PROVE  samples'[k][i].at <= now /\ (i < j => samples'[k][i].at <= samples'[k][j].at)
      BY <1>1 DEF OldestFirst, Keys, Devices, Slots
    <3>0. samples'[k] # <<>>
      OBVIOUS
    <3>1. PICK m \in DOMAIN samples[k] :
              /\ DOMAIN samples'[k] = 1..Len(samples[k]) - m + 1
              /\ \A x \in 1..Len(samples[k]) - m + 1 :
                    x + m - 1 \in DOMAIN samples[k] /\ samples'[k][x] = samples[k][x + m - 1]
      BY <2>1, <3>0
    <3>2. DOMAIN samples[k] = 1..Len(samples[k]) /\ Len(samples[k]) \in Nat
      BY <1>0, RowsOf
    <3>3. /\ i + m - 1 \in DOMAIN samples[k] /\ j + m - 1 \in DOMAIN samples[k]
          /\ (i < j => i + m - 1 < j + m - 1)
          /\ samples'[k][i] = samples[k][i + m - 1] /\ samples'[k][j] = samples[k][j + m - 1]
      <4>1. i + m - 1 \in DOMAIN samples[k] /\ samples'[k][i] = samples[k][i + m - 1]
        BY <3>1
      <4>2. j + m - 1 \in DOMAIN samples[k] /\ samples'[k][j] = samples[k][j + m - 1]
        BY <3>1
      <4>3. i < j => i + m - 1 < j + m - 1
        BY <3>1, <3>2
      <4> QED
        BY <4>1, <4>2, <4>3
    <3> QED
      BY <1>0, <3>3 DEF Samples, OldestFirst
  <2>4. TransitionLog'
    <3>1. CASE samples'[ArrayKey] = <<>>
      BY <3>1 DEF TransitionLog, ArrayKey
    <3>2. CASE samples'[ArrayKey] # <<>>
      <4>1. PICK m \in DOMAIN samples[ArrayKey] :
                /\ Len(samples'[ArrayKey]) = Len(samples[ArrayKey]) - m + 1
                /\ \A x \in 1..Len(samples[ArrayKey]) - m + 1 :
                      samples'[ArrayKey][x] = samples[ArrayKey][x + m - 1]
        BY <2>1, <3>2, ArrayKeyIsKey
      <4>2. DOMAIN samples[ArrayKey] = 1..Len(samples[ArrayKey]) /\ Len(samples[ArrayKey]) \in Nat
        BY <1>0, RowsOf, ArrayKeyIsKey
      <4>3. ASSUME NEW i \in 1..Len(samples'[ArrayKey]) - 1
            PROVE  samples'[ArrayKey][i].value # samples'[ArrayKey][i + 1].value
        <5>1. /\ i + m - 1 \in 1..Len(samples[ArrayKey]) - 1 /\ (i + 1) + m - 1 = (i + m - 1) + 1
              /\ i \in 1..Len(samples[ArrayKey]) - m + 1 /\ i + 1 \in 1..Len(samples[ArrayKey]) - m + 1
          BY <4>1, <4>2
        <5>2. /\ samples'[ArrayKey][i] = samples[ArrayKey][i + m - 1]
              /\ samples'[ArrayKey][i + 1] = samples[ArrayKey][(i + m - 1) + 1]
          <6>1. samples'[ArrayKey][i] = samples[ArrayKey][i + m - 1]
            BY <4>1, <5>1
          <6>2. samples'[ArrayKey][i + 1] = samples[ArrayKey][(i + 1) + m - 1]
            BY <4>1, <5>1
          <6> QED
            BY <5>1, <6>1, <6>2
        <5> QED
          BY <1>0, <5>1, <5>2 DEF Samples, TransitionLog
      <4> QED
        BY <4>3 DEF TransitionLog, ArrayKey
    <3> QED
      BY <3>1, <3>2
  <2>5. CountersGrow'
    <3> SUFFICES ASSUME NEW d \in Counters
                 PROVE  LET rows == samples'[<<"smart.reallocated", d>>] IN
                          \A i \in DOMAIN rows : rows[i].ok =>
                              /\ rows[i].value \in Nat /\ rows[i].value <= count[d]
                              /\ \A j \in DOMAIN rows : i < j /\ rows[j].ok => rows[i].value <= rows[j].value
      BY <1>1 DEF CountersGrow
    <3>k. PICK k \in Keys : k = <<"smart.reallocated", d>>
      BY CounterKey
    <3> SUFFICES ASSUME NEW i \in DOMAIN samples'[k], samples'[k][i].ok
                 PROVE  /\ samples'[k][i].value \in Nat /\ samples'[k][i].value <= count[d]
                        /\ \A j \in DOMAIN samples'[k] :
                              i < j /\ samples'[k][j].ok => samples'[k][i].value <= samples'[k][j].value
      BY <3>k
    <3>0. samples'[k] # <<>>
      OBVIOUS
    <3>1. PICK m \in DOMAIN samples[k] :
              /\ DOMAIN samples'[k] = 1..Len(samples[k]) - m + 1
              /\ \A x \in 1..Len(samples[k]) - m + 1 :
                    x + m - 1 \in DOMAIN samples[k] /\ samples'[k][x] = samples[k][x + m - 1]
      BY <2>1, <3>0
    <3>2. DOMAIN samples[k] = 1..Len(samples[k]) /\ Len(samples[k]) \in Nat
      BY <1>0, RowsOf
    <3>3. \A x \in DOMAIN samples[k] : samples[k][x].ok =>
              /\ samples[k][x].value \in Nat /\ samples[k][x].value <= count[d]
              /\ \A y \in DOMAIN samples[k] : x < y /\ samples[k][y].ok => samples[k][x].value <= samples[k][y].value
      BY <1>0, <3>k DEF Samples, CountersGrow
    <3>4. ASSUME NEW j \in DOMAIN samples'[k], i < j, samples'[k][j].ok
          PROVE  samples'[k][i].value <= samples'[k][j].value
      <4>1. /\ i + m - 1 \in DOMAIN samples[k] /\ j + m - 1 \in DOMAIN samples[k] /\ i + m - 1 < j + m - 1
            /\ samples'[k][i] = samples[k][i + m - 1] /\ samples'[k][j] = samples[k][j + m - 1]
        <5>1. i + m - 1 \in DOMAIN samples[k] /\ samples'[k][i] = samples[k][i + m - 1]
          BY <3>1
        <5>2. j + m - 1 \in DOMAIN samples[k] /\ samples'[k][j] = samples[k][j + m - 1]
          BY <3>1
        <5>3. i + m - 1 < j + m - 1
          BY <3>1, <3>2, <3>4
        <5> QED
          BY <5>1, <5>2, <5>3
      <4> QED
        BY <3>3, <3>4, <4>1
    <3> QED
      BY <3>1, <3>3, <3>4
  <2> QED
    BY <1>0, <1>1, <1>2, <2>2, <2>3, <2>4, <2>5, Collect
<1> QED
  BY <1>3, <1>4 DEF PruneMetricSamples

LEMMA CrashStep ==
    ASSUME SamplerInv, Crash
    PROVE  SamplerInv'
<1>0. /\ Samples /\ now \in Nat /\ count \in [Counters -> Nat]
      /\ snap \in [state : ArrayStates, slots : SUBSET Slots]
  BY SamplerParts DEF SamplerInv, SamplerTypes
<1>1. SeriesTypes' /\ OldestFirst' /\ TransitionLog' /\ CountersGrow'
  BY <1>0, SamplesKept DEF Crash
<1>2. CycleInv'
  BY DEF Crash, CycleInv
<1> QED
  BY <1>0, <1>1, <1>2, Collect DEF Crash

LEMMA SamplerInit == Init => SamplerInv
<1> SUFFICES ASSUME Init
             PROVE  SamplerInv
  OBVIOUS
<1>1. \A k \in Keys : samples[k] = <<>> /\ DOMAIN samples[k] = {}
  BY DEF Init
<1>2. (CHOOSE s \in ArrayStates : TRUE) \in ArrayStates
  BY SamplerAssumption
<1>3. SamplerTypes
  BY <1>1, <1>2 DEF Init, SamplerTypes
<1>4. OldestFirst
  BY <1>1 DEF OldestFirst
<1>5. Len(samples[ArrayKey]) = 0
  BY <1>1, ArrayKeyIsKey
<1>6. TransitionLog
  BY <1>5 DEF TransitionLog
<1>7. CountersGrow
  BY <1>1, CounterKey DEF CountersGrow
<1>8. CycleInv
  BY DEF Init, CycleInv
<1> QED
  BY <1>3, <1>4, <1>6, <1>7, <1>8 DEF SamplerInv

(***************************************************************************)
(* The theorems.                                                           *)
(***************************************************************************)
\* Whatever fails, sleeps, is pruned or crashes, the history stays in order, a
\* counter's readings grow and a cycle accounts for the disks behind it
\* (sampler.go sampleOnce, metric_samples.go).
THEOREM SamplerInvariant == Spec => []SamplerInv
<1>1. SamplerInv /\ [Next]_vars => SamplerInv'
  <2> SUFFICES ASSUME SamplerInv, [Next]_vars
               PROVE  SamplerInv'
    OBVIOUS
  <2>1. CASE UNCHANGED vars
    <3>1. /\ Samples /\ CycleInv /\ now \in Nat /\ count \in [Counters -> Nat] /\ todo \subseteq snap.slots
          /\ snap \in [state : ArrayStates, slots : SUBSET Slots]
          /\ at \in {"idle", "array", "state", "disks", "shares", "prune"}
      BY SamplerParts DEF SamplerInv, SamplerTypes
    <3>2. SeriesTypes' /\ OldestFirst' /\ TransitionLog' /\ CountersGrow'
      BY <2>1, <3>1, SamplesKept DEF vars
    <3>3. CycleInv'
      BY <2>1, <3>1 DEF vars, CycleInv, Accounted
    <3> QED
      BY <2>1, <3>1, <3>2, <3>3, Collect DEF vars
  <2> QED
    BY <2>1, StartCycleStep, ReadArrayStep, ArrayStateStep, DiskStep, SharesStep, PruneStep, CrashStep
       DEF Next
<1> QED
  BY <1>1, SamplerInit, PTL DEF Spec

\* The array state is a log of transitions: no two neighbouring rows agree
\* (sampler.go sampleArrayState).
THEOREM LogHoldsTransitions == Spec => []TransitionLog
<1>1. SamplerInv => TransitionLog
  BY DEF SamplerInv
<1> QED
  BY <1>1, SamplerInvariant, PTL

\* Every disk a cycle listed has a row of the cycle, a reading or a gap, unless
\* the Store refused it (sampler.go sampleSMART).
THEOREM DisksAreAccounted == Spec => []EveryDiskAccounted
<1>1. SamplerInv => EveryDiskAccounted
  BY DEF SamplerInv, CycleInv, EveryDiskAccounted
<1> QED
  BY <1>1, SamplerInvariant, PTL

\* A counter that grows is never reported as falling, for every window and
\* every pattern of gaps, lost rows and prunes (tools_trends.go trendSummaryView).
THEOREM NoDeclineIsInvented == Spec => []NoFalseDecline
<1>1. SamplerInv => NoFalseDecline
  <2> SUFFICES ASSUME SamplerInv, NEW d \in Counters, NEW h \in 0 .. MaxWindow + 1, NEW to \in 0 .. MaxCycles
               PROVE  get_smart_trend("smart.reallocated", d, h, to) # "down"
    BY DEF NoFalseDecline
  <2>k. PICK k \in Keys : k = <<"smart.reallocated", d>>
    BY CounterKey
  <2>0. Samples /\ SeriesTypes
    BY SamplerParts DEF Samples, SamplerTypes, SeriesTypes
  <2>1. ASSUME NEW points, points \subseteq DOMAIN samples[k]
        PROVE  trendSummaryView(k, points) # "down"
    <3> DEFINE ok == Readings(k, points)
               n == Len(samples[k])
    <3>1. n \in Nat /\ DOMAIN samples[k] = 1..n
      BY <2>0, RowsOf
    <3>2. CASE GapHeavy(k, points)
      BY <3>2 DEF trendSummaryView
    <3>3. CASE ~GapHeavy(k, points)
      <4>1. ok # {} /\ ok \subseteq 1..n /\ ok \subseteq Nat
        <5>1. ok \subseteq 1..n /\ ok \subseteq Nat
          BY <2>1, <3>1 DEF Readings
        <5>2. Cardinality(ok) < 2 => GapHeavy(k, points)
          BY DEF GapHeavy
        <5> HIDE DEF ok
        <5>3. ok = {} => Cardinality(ok) = 0
          BY FS_EmptySet
        <5> QED
          BY <3>3, <5>1, <5>2, <5>3
      <4>2. Min(ok) \in ok /\ Max(ok) \in ok /\ Min(ok) <= Max(ok)
        <5> HIDE DEF n, ok
        <5> QED
          BY <3>1, <4>1, LeastOf, GreatestOf
      <4>3. PICK a \in ok, b \in ok : a = Min(ok) /\ b = Max(ok) /\ a <= b
        BY <4>2
      <4>4. samples[k][a].ok /\ samples[k][b].ok /\ a \in DOMAIN samples[k] /\ b \in DOMAIN samples[k]
        BY <2>1 DEF Readings
      <4>5. /\ samples[k][a].value \in Nat /\ samples[k][b].value \in Nat
            /\ a < b => samples[k][a].value <= samples[k][b].value
        BY <2>k, <2>0, <4>4 DEF Samples, CountersGrow
      <4>6. a \in Nat /\ b \in Nat
        BY <4>1, <4>3
      <4>7. ~(samples[k][b].value - samples[k][a].value < 0)
        BY <4>3, <4>5, <4>6
      <4> QED
        BY <3>3, <4>3, <4>7 DEF trendSummaryView
    <3> QED
      BY <3>2, <3>3
  <2>2. Trend(k, to - trendWindow(h), to) \subseteq DOMAIN samples[k]
    BY DEF Trend
  <2>3. trendSummaryView(k, Trend(k, to - trendWindow(h), to)) # "down"
    BY <2>1, <2>2
  <2> QED
    BY <2>k, <2>3 DEF get_smart_trend
<1> QED
  BY <1>1, SamplerInvariant, PTL
=============================================================================
