------------------------------- MODULE Metrics -------------------------------
(***************************************************************************)
(* Latency statistics: those of the benchmark (graphbench/metrics.py) and  *)
(* those the integrity audit computes on its own                           *)
(* (graphbench/integrity_audit.py), over every list of samples a campaign  *)
(* may collect.  Durations are whole numbers, percentiles hundredths.      *)
(***************************************************************************)
EXTENDS Integers, Sequences, FiniteSetsExt

CONSTANTS
    Durations,      \* what an operation may take
    Successes,      \* which outcomes an operation may have
    Warmups,        \* whether a sample is, or is not, a warm-up
    MaxSamples      \* bound: samples collected

ASSUME DurationsAssumption == Durations \subseteq Nat /\ MaxSamples \in Nat
ASSUME OutcomesAssumption == Successes \subseteq BOOLEAN /\ Warmups \subseteq BOOLEAN

VARIABLE samples    \* the samples, in the order of the operations

Sample == [duration : Durations, success : Successes, warmup : Warmups]

NoSamples == samples = <<>>

\* timed_operation: a failure has a duration too.
Collect ==
    /\ Len(samples) < MaxSamples
    /\ \E s \in Sample : samples' = Append(samples, s)

-----------------------------------------------------------------------------
(* metrics.py                                                              *)

None == -1      \* what there is no value for

At(ordered, position) == ordered[position + 1]

\* Mutant: the position is p * n, stopped at the last value.
PercentileOfAll(ordered, p) ==
    LET last     == Len(ordered) - 1
        position == Len(ordered) * p
        lower    == IF position \div 100 > last THEN last ELSE position \div 100
        upper    == IF lower < last THEN lower + 1 ELSE last
    IN  100 * At(ordered, lower) + (At(ordered, upper) - At(ordered, lower)) * (position % 100)

\* The inclusive linear percentile: position p * (n - 1), between two values
\* in proportion.
Percentile(ordered, p) ==
    LET last     == Len(ordered) - 1
        position == last * p
        lower    == position \div 100
        upper    == IF lower < last THEN lower + 1 ELSE last
    IN  100 * At(ordered, lower) + (At(ordered, upper) - At(ordered, lower)) * (position % 100)

\* sorted(), which is stable: the place of a value is how many come no later.
Place(values, i) ==
    Cardinality({j \in DOMAIN values :
                    values[j] < values[i] \/ (values[j] = values[i] /\ j <= i)})
Sorted(values) ==
    [k \in 1..Cardinality(DOMAIN values) |->
        values[CHOOSE i \in DOMAIN values : Place(values, i) = k]]

PercentileOf(values, p) == IF DOMAIN values = {} THEN None ELSE Percentile(Sorted(values), p)

\* No statistic depends on the order of the samples: the lists of the code are
\* sets of positions here, and the latencies a value at each of them.
Measured(list) == {i \in DOMAIN list : ~list[i].warmup}

\* Mutant: the time a failure took counts as a latency.
LatenciesOfAll(list) == [i \in Measured(list) |-> list[i].duration]

Latencies(list) == [i \in {i \in Measured(list) : list[i].success} |-> list[i].duration]

\* latency_statistics
Statistics(list) ==
    LET latencies == Latencies(list)
        none      == DOMAIN latencies = {}
    IN  [attempts  |-> Cardinality(Measured(list)),
         successes |-> Cardinality(DOMAIN latencies),
         failures  |-> Cardinality({i \in Measured(list) : ~list[i].success}),
         minimum   |-> IF none THEN None ELSE Min(Range(latencies)),
         maximum   |-> IF none THEN None ELSE Max(Range(latencies)),
         p50       |-> PercentileOf(latencies, 50),
         p95       |-> PercentileOf(latencies, 95),
         p99       |-> PercentileOf(latencies, 99)]

-----------------------------------------------------------------------------
(* integrity_audit.py                                                      *)

\* _percentile, from counts: the value k places from the bottom.
Ranked(values, k) ==
    CHOOSE x \in Range(values) :
        /\ Cardinality({i \in DOMAIN values : values[i] < x}) <= k
        /\ Cardinality({i \in DOMAIN values : values[i] <= x}) > k

AuditPercentile(values, p) ==
    IF DOMAIN values = {} THEN None
    ELSE LET gaps     == Cardinality(DOMAIN values) - 1
             position == gaps * p
             lower    == position \div 100
             upper    == IF lower + 1 > gaps THEN gaps ELSE lower + 1
         IN  100 * Ranked(values, lower)
               + (Ranked(values, upper) - Ranked(values, lower)) * (position % 100)

\* _stats, of the measured records: a failure is a record without a latency.
AuditStatistics(list) ==
    LET durations == Latencies(list)
        attempts  == Cardinality(Measured(list))
        successes == Cardinality(DOMAIN durations)
        none      == DOMAIN durations = {}
    IN  [attempts  |-> attempts,
         successes |-> successes,
         failures  |-> attempts - successes,
         minimum   |-> IF none THEN None ELSE Ranked(durations, 0),
         maximum   |-> IF none THEN None ELSE Ranked(durations, successes - 1),
         p50       |-> AuditPercentile(durations, 50),
         p95       |-> AuditPercentile(durations, 95),
         p99       |-> AuditPercentile(durations, 99)]

-----------------------------------------------------------------------------
(* Properties                                                              *)

stats == Statistics(samples)

\* The audit's statistics, computed on their own from the raw records, are the
\* published ones: it accepts every honest summary.
AuditAgrees == AuditStatistics(samples) = stats

Splits(x, p) ==
    LET durations == Latencies(samples)
        gaps      == Cardinality(DOMAIN durations) - 1
    IN  /\ 100 * Cardinality({i \in DOMAIN durations : 100 * durations[i] <= x}) > gaps * p
        /\ 100 * Cardinality({i \in DOMAIN durations : 100 * durations[i] >= x}) > gaps * (100 - p)

\* What the published p50, p95 and p99 mean, in whatever order the samples came:
\* more successes than p% of the n - 1 gaps are at or below the percentile, and
\* more than the rest of the gaps at or above it; and the three are in order.
PercentilesSplitTheSamples ==
    stats.successes > 0 =>
        /\ Splits(stats.p50, 50) /\ Splits(stats.p95, 95) /\ Splits(stats.p99, 99)
        /\ stats.p50 <= stats.p95 /\ stats.p95 <= stats.p99
=============================================================================
