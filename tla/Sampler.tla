------------------------------ MODULE Sampler ------------------------------
(***************************************************************************)
(* The history sampler (internal/sampler), its table (internal/store/      *)
(* metric_samples.go) and the trend the MCP tools read from it             *)
(* (internal/mcp/tools_trends.go). One cycle reads the array, every disk   *)
(* and the shares, then prunes; a reader may come between any two steps.   *)
(***************************************************************************)
EXTENDS UnraidSource, FiniteSets, SequencesExt

CONSTANTS
    DeviceOf,       \* the device in each slot of the array, or NoDevice
    Counters,       \* the devices that report the reallocated-sector attribute
    Shares,         \* user shares
    Fields,         \* the emhttp fields of each slot and share
    ArrayStates,    \* values of ArrayState.State
    Temperatures,   \* what a device may say of its temperature, or NoReading
    NoReading,
    Retention,      \* how long a sample is kept
    MaxWindow,      \* the largest window get_smart_trend accepts
    MaxCycles, MaxCount,    \* bounds on cycles and on reallocated sectors
    MaxFaults       \* bound on failed statements and crashes together

ASSUME SamplerAssumption ==
    /\ Retention \in Nat /\ MaxWindow \in Nat \ {0}
    /\ MaxCycles \in Nat /\ MaxCount \in Nat
    /\ MaxFaults \in Nat
    /\ ArrayStates # {} /\ Temperatures \ {NoReading} \subseteq Int
    /\ Counters \subseteq {DeviceOf[s] : s \in DOMAIN DeviceOf}
    /\ \A x \in DOMAIN DeviceOf \cup Shares : \A key \in DOMAIN Fields[x] : Fields[x][key] \in Nat

VARIABLES
    now,        \* when the cycle began
    count,      \* the sectors each device with a counter has reallocated
    samples,    \* metric_samples: per series and subject, oldest first
    at,         \* where sampleOnce stands
    snap,       \* the array it read
    todo,       \* the slots it has still to sample
    faults,     \* failed statements and crashes so far
    unstored    \* history: the rows of this cycle the Store refused

vars == <<now, count, samples, at, snap, todo, faults, unstored>>

Slots == DOMAIN DeviceOf
Devices == {DeviceOf[s] : s \in Slots}
ArrayKey == <<"array.state", "array">>
SmartSeries == {"smart.reallocated", "smart.temperature"}
Keys == {ArrayKey} \cup (SmartSeries \X Devices)
            \cup ({"capacity.disk"} \X Slots) \cup ({"capacity.share"} \X Shares)

\* A sample is a value or, with ok FALSE, an explicit gap.
Value(v) == [ok |-> TRUE, value |-> v, at |-> now]

\* Mutation: a gap is stored as a reading of zero.
ZeroGap == [ok |-> TRUE, value |-> 0, at |-> now]

recordSMARTGap == [ok |-> FALSE, value |-> 0, at |-> now]

Init ==
    /\ now = 0
    /\ count = [d \in Counters |-> 0]
    /\ samples = [k \in Keys |-> <<>>]
    /\ at = "idle"
    /\ snap = [state |-> CHOOSE s \in ArrayStates : TRUE, slots |-> {}]
    /\ todo = {}
    /\ faults = 0 /\ unstored = {}

\* RecordMetricSample for each row of rows, a function from keys to sequences.
\* Every row is a statement of its own; a failed one is logged and skipped.
RecordMetricSample(rows) ==
    \E lost \in {{}} \cup {{k} : k \in DOMAIN rows} :
        /\ faults + Cardinality(lost) <= MaxFaults
        /\ faults' = faults + Cardinality(lost)
        /\ unstored' = unstored \cup lost
        /\ samples' = [k \in Keys |-> IF k \in DOMAIN rows \ lost
                                      THEN samples[k] \o rows[k] ELSE samples[k]]

(***************************************************************************)
(* sampleOnce.                                                             *)
(***************************************************************************)
\* Run: at the start and at every tick. A cycle has one time, the one it began
\* at.
StartCycle ==
    /\ at = "idle" /\ now < MaxCycles
    /\ now' = now + 1
    /\ at' = "array"
    /\ unstored' = {}
    /\ snap' = [snap EXCEPT !.slots = {}]
    /\ UNCHANGED <<count, samples, todo, faults>>

\* source.Array; an error skips to the shares.
ReadArray ==
    /\ at = "array"
    /\ \E reply \in ApiReplies, files \in BOOLEAN, state \in ArrayStates :
          LET source == WithFallback(reply, files)
          IN  IF source = "error"
              THEN at' = "shares" /\ UNCHANGED <<snap, todo>>
              ELSE /\ at' = "state"
                   /\ snap' = [state |-> state, slots |-> DisksFrom(source, DeviceOf)]
                   /\ todo' = snap'.slots
    /\ UNCHANGED <<now, count, samples, faults, unstored>>

\* Mutation: the oldest sample is taken for the latest.
OldestMetricSample(k) == Head(samples[k])

LatestMetricSample(k) == Last(samples[k])

\* The array state is a log of transitions: a row only when it differs from the
\* latest one. A log that cannot be read is left alone.
sampleArrayState ==
    LET known == samples[ArrayKey] # <<>> /\ LatestMetricSample(ArrayKey).value = snap.state
    IN
    /\ at = "state"
    /\ at' = "disks"
    /\ \/ known /\ UNCHANGED <<samples, faults, unstored>>
       \/ ~known /\ RecordMetricSample([k \in {ArrayKey} |-> <<Value(snap.state)>>])
       \/ /\ faults < MaxFaults /\ faults' = faults + 1
          /\ unstored' = unstored \cup {ArrayKey}
          /\ UNCHANGED samples
    /\ UNCHANGED <<now, count, snap, todo>>

Plausible(celsius) == celsius # NoReading /\ 0 <= celsius /\ celsius <= 100

\* Mutation: a device without a plausible temperature gets no row.
OmitTemperature(t) == IF Plausible(t) THEN <<Value(t)>> ELSE <<>>

\* A temperature that is missing or implausible is recorded as a gap.
recordSMARTTemperature(t) == IF Plausible(t) THEN <<Value(t)>> ELSE <<recordSMARTGap>>

recordCapacity(fields, key) == <<Value(kibField(fields, key))>>

\* What sampleSMART adds to a series of device d: the value of a counter that
\* was reported (none when the device has no such attribute), the temperature,
\* and a gap in every tracked series when smartctl did not answer.
SmartRows(series, d, bits, t) ==
    CASE runSmartctl(bits) # "ok" -> <<recordSMARTGap>>
      [] runSmartctl(bits) = "ok" /\ series = "smart.temperature" ->
            recordSMARTTemperature(t)
      [] OTHER -> IF d \in Counters THEN <<Value(count'[d])>> ELSE <<>>

\* sampleDiskCapacity and sampleSMART for one slot, whose device answers, sleeps
\* or fails, and whose counter may have grown since it was last read.
sampleDisk(s) ==
    LET d == DeviceOf[s]
        keys == {<<"capacity.disk", s>>} \cup (SmartSeries \X {d})
    IN  /\ at = "disks" /\ s \in todo
        /\ todo' = todo \ {s}
        /\ \E grown \in {c \in [Counters -> 0 .. MaxCount] :
                            \A x \in Counters : c[x] >= count[x] /\ (x # d => c[x] = count[x])} :
              count' = grown
        /\ \E bits \in IF d = NoDevice THEN {{0}} ELSE {{}, {1}, {4}}, t \in Temperatures :
              RecordMetricSample([k \in keys |->
                  IF k[1] = "capacity.disk" THEN recordCapacity(Fields[s], "fsUsed")
                  ELSE SmartRows(k[1], d, bits, t)])
        /\ UNCHANGED <<now, at, snap>>

\* source.Shares; an error is logged.
SampleShares ==
    /\ at = "shares" \/ (at = "disks" /\ todo = {})
    /\ at' = "prune"
    /\ \E reply \in ApiReplies, files \in BOOLEAN :
          IF SharesFrom(reply, files) = "error"
          THEN UNCHANGED <<samples, faults, unstored>>
          ELSE RecordMetricSample([k \in {"capacity.share"} \X Shares |->
                                      recordCapacity(Fields[k[2]], "used")])
    /\ UNCHANGED <<now, count, snap, todo>>

\* Rows are in the order of their time, so the old ones come first.
Since(rows, cutoff) ==
    LET kept == {i \in DOMAIN rows : rows[i].at >= cutoff}
    IN  IF kept = {} THEN <<>> ELSE SubSeq(rows, Min(kept), Len(rows))

\* Everything older than the retention is deleted, of every series alike.
PruneMetricSamples ==
    /\ at = "prune"
    /\ at' = "idle"
    /\ \/ /\ samples' = [k \in Keys |-> Since(samples[k], now - Retention)]
          /\ UNCHANGED faults
       \/ faults < MaxFaults /\ faults' = faults + 1 /\ UNCHANGED samples
    /\ UNCHANGED <<now, count, snap, todo, unstored>>

\* The daemon stops in the middle of a cycle and starts again.
Crash ==
    /\ at # "idle" /\ faults < MaxFaults
    /\ faults' = faults + 1
    /\ at' = "idle" /\ todo' = {}
    /\ UNCHANGED <<now, count, samples, snap, unstored>>

Next ==
    \/ StartCycle \/ ReadArray \/ sampleArrayState
    \/ \E s \in Slots : sampleDisk(s)
    \/ SampleShares \/ PruneMetricSamples \/ Crash

Spec == Init /\ [][Next]_vars

(***************************************************************************)
(* get_smart_trend.                                                        *)
(***************************************************************************)
ListMetricSeries == {k \in Keys : samples[k] # <<>>}

\* The window asked for, or 0 for a malformed request.
trendWindow(hours) == IF hours \in 1 .. MaxWindow THEN hours ELSE 0

\* The points of a window, oldest first, are named by their place in the series.
Trend(k, from, to) ==
    {i \in DOMAIN samples[k] : from <= samples[k][i].at /\ samples[k][i].at <= to}

Readings(k, points) == {i \in points : samples[k][i].ok}

GapHeavy(k, points) ==
    LET n == Cardinality(Readings(k, points)) IN n < 2 \/ Cardinality(points) - n > n

\* The direction trendSummaryView reports for a numeric series: from the first
\* point with a reading to the last.
trendSummaryView(k, points) ==
    IF GapHeavy(k, points) THEN "insufficient-data"
    ELSE LET ok == Readings(k, points)
             delta == samples[k][Max(ok)].value - samples[k][Min(ok)].value
         IN  IF delta > 0 THEN "up" ELSE IF delta < 0 THEN "down" ELSE "flat"

\* The handler, at a time of the reader's choosing. Only the series must be one
\* that has rows; any subject is accepted.
get_smart_trend(series, subject, hours, to) ==
    CASE trendWindow(hours) = 0 -> "invalid_params"
      [] trendWindow(hours) # 0 /\ (\A k \in ListMetricSeries : k[1] # series) ->
            "unknown_series"
      [] OTHER -> LET k == <<series, subject>>
                  IN  trendSummaryView(k, Trend(k, to - trendWindow(hours), to))

(***************************************************************************)
(* Properties.                                                             *)
(***************************************************************************)
\* array.state is a log of transitions: however cycles fail, the daemon crashes,
\* the source alternates or old rows are pruned, two neighbouring rows differ
\* (sampler.go:185, metric_samples.sql LatestMetricSample).
TransitionLog ==
    \A i \in 1 .. Len(samples[ArrayKey]) - 1 :
        samples[ArrayKey][i].value # samples[ArrayKey][i + 1].value

\* A counter that only grows is never reported as falling, whatever window is
\* asked for and however many gaps, failed writes and pruned rows it holds
\* (tools_trends.go:219-254 and the gaps of sampler.go:280).
NoFalseDecline ==
    \A d \in Counters, h \in 0 .. MaxWindow + 1, to \in 0 .. MaxCycles :
        get_smart_trend("smart.reallocated", d, h, to) # "down"

\* A row of this cycle, a value or a gap, unless the Store refused it.
Accounted(s) ==
    LET k == <<"smart.temperature", DeviceOf[s]>>
    IN  k \in unstored \/ (\E i \in DOMAIN samples[k] : samples[k][i].at = now)

\* Once the disks of a cycle are done, every device the array listed has a row
\* of this cycle in the temperature series, or one that the Store refused: a
\* disk is never passed over in silence (sampler.go:217-286).
EveryDiskAccounted == at = "prune" => \A s \in snap.slots : Accounted(s)

(***************************************************************************)
(* The parts of the inductive invariant behind them.                       *)
(***************************************************************************)
Row(k) == [ok : BOOLEAN, value : IF k = ArrayKey THEN ArrayStates ELSE Int, at : Nat]

SamplerTypes ==
    /\ now \in Nat /\ count \in [Counters -> Nat]
    /\ DOMAIN samples = Keys /\ \A k \in Keys : samples[k] \in Seq(Row(k))
    /\ at \in {"idle", "array", "state", "disks", "shares", "prune"}
    /\ snap \in [state : ArrayStates, slots : SUBSET Slots] /\ todo \subseteq snap.slots

\* No row is newer than the cycle, and a series is in the order of its times:
\* the rows a prune deletes are exactly those it drops from the front.
OldestFirst ==
    \A k \in Keys : \A i, j \in DOMAIN samples[k] :
        samples[k][i].at <= now /\ (i < j => samples[k][i].at <= samples[k][j].at)

\* The readings of a counter grow from row to row, up to its present count.
CountersGrow ==
    \A d \in Counters : LET rows == samples[<<"smart.reallocated", d>>] IN
        \A i \in DOMAIN rows : rows[i].ok =>
            /\ rows[i].value \in Nat /\ rows[i].value <= count[d]
            /\ \A j \in DOMAIN rows : i < j /\ rows[j].ok => rows[i].value <= rows[j].value

\* Where a cycle stands: the disks it listed are behind it, accounted for, or
\* ahead of it.
CycleInv ==
    /\ at \in {"idle", "array", "shares", "prune"} => todo = {}
    /\ at \in {"array", "shares"} => snap.slots = {}
    /\ at = "state" => todo = snap.slots
    /\ at \in {"disks", "prune"} => \A s \in snap.slots \ todo : Accounted(s)

\* The inductive invariant of the sampler (sampler.go sampleOnce with its crashes
\* and failed statements, metric_samples.go).
SamplerInv == SamplerTypes /\ OldestFirst /\ TransitionLog /\ CountersGrow /\ CycleInv
=============================================================================
