----------------------------- MODULE Estimators -----------------------------
(***************************************************************************)
(* What the governor remembers of a quota window (state.rs) and the burn   *)
(* it measures from that memory (controller.rs).  No variables.            *)
(*                                                                         *)
(* A sample is [at, used, resets, workers]: when the reading was taken,    *)
(* the reported utilization in quanta, the reported reset time, and the    *)
(* governed workers.  Times are ticks.  Rates are exact fractions          *)
(* <<numerator, denominator>>; where the code divides floats it decides on *)
(* the same side of every comparison.  Samples are recorded in the order   *)
(* of their times, so the code's sort leaves them as they are.             *)
(***************************************************************************)
EXTENDS Sums, SequencesExt

CONSTANTS
  Tolerance,    \* RESET_GENERATION_JITTER_TOLERANCE_SECONDS
  Baseline,     \* the 24 hours of the aggregate estimator
  MinInterval,  \* MIN_AGGREGATE_SAMPLE_INTERVAL_SECONDS
  MaxSamples,   \* MAX_AGGREGATE_BURN_SAMPLES
  MaxHistory    \* MAX_HISTORY_SAMPLES_PER_GENERATION

ASSUME EstimatorAssumption ==
  /\ Tolerance \in Nat
  /\ {Baseline, MinInterval, MaxSamples, MaxHistory} \subseteq Nat \ {0}
  /\ (MaxSamples - 1) * MinInterval >= Baseline

SameGeneration(a, b) == a - b \in -Tolerance .. Tolerance

Newest(s, n) == IF Len(s) > n THEN SubSeq(s, Len(s) - n + 1, Len(s)) ELSE s

-----------------------------------------------------------------------------
(* AccountState::record, for one window the snapshot reports.  A memory is *)
(*   window     the newest sample, as a sequence of at most one            *)
(*   history    the generation's newest samples, all under the reset time  *)
(*              of its first one, with the generation's peak               *)
(*   aggregate  spaced samples of any generation                           *)
EmptyHistory == [resets |-> 0, samples |-> <<>>, peak |-> 0]
EmptyMemory == [window |-> <<>>, history |-> EmptyHistory, aggregate |-> <<>>]

RecordHistory(history, sample) ==
  LET kept == IF history.samples # <<>> /\ SameGeneration(history.resets, sample.resets)
              THEN history ELSE [EmptyHistory EXCEPT !.resets = sample.resets]
  IN  [resets |-> kept.resets,
       samples |-> Newest(Append(kept.samples, sample), MaxHistory),
       peak |-> IF sample.used > kept.peak THEN sample.used ELSE kept.peak]

SpacedAtAll(previous, sample) == sample.at > previous.at  \* variant: no spacing

(* record_aggregate_burn_samples compares the reset times exactly.         *)
SpacedFrom(previous, sample) ==
  previous.resets # sample.resets \/ sample.at - previous.at >= MinInterval

RecordAggregate(samples, sample) ==
  IF samples = <<>> \/ SpacedFrom(Last(samples), sample)
  THEN Newest(Append(samples, sample), MaxSamples) ELSE samples

Record(memory, sample) ==
  [window |-> <<sample>>,
   history |-> RecordHistory(memory.history, sample),
   aggregate |-> RecordAggregate(memory.aggregate, sample)]

-----------------------------------------------------------------------------
Less(q, r) == q[1] * r[2] < r[1] * q[2]
ClampRate(q, top) == IF q[1] < 0 THEN <<0, 1>> ELSE IF Less(top, q) THEN top ELSE q
UpperMedian(rates) == SortSeq(rates, Less)[Len(rates) \div 2 + 1]

NoRate == <<>>

(* The samples from the newest one at least span old, or none.             *)
Covering(samples, now, span) ==
  LET old == {i \in DOMAIN samples : samples[i].at <= now - span}
  IN  IF old = {} THEN <<>> ELSE SubSeq(samples, Max(old), Len(samples))

BurnedAcrossResets(previous, next) ==  \* variant: a fall counts as burn
  IF next.used < previous.used THEN previous.used - next.used ELSE next.used - previous.used

(* A fall within a generation is censored; a new generation counts whole.  *)
Burned(previous, next) ==
  IF ~SameGeneration(previous.resets, next.resets) THEN next.used
  ELSE IF next.used > previous.used THEN next.used - previous.used ELSE 0

Intervals(samples) ==
  [i \in 1 .. Len(samples) - 1 |->
     LET p == samples[i]
         n == samples[i + 1]
     IN  [elapsed |-> n.at - p.at, burned |-> Burned(p, n), x2 |-> p.workers + n.workers,
          same |-> SameGeneration(p.resets, n.resets)]]

(* The sum of a quantity over some of the intervals.                       *)
ElapsedOver(intervals, which) == SumOver([i \in which |-> intervals[i].elapsed], which)
BurnedOver(intervals, which) == SumOver([i \in which |-> intervals[i].burned], which)
WorkerTicks2(intervals) ==
  SumOver([i \in DOMAIN intervals |-> intervals[i].elapsed * intervals[i].x2], DOMAIN intervals)

(* estimate_exogenous_burn: the rate of the intervals without workers, or  *)
(* the intercept of a robust line through the rates of the worker bands.   *)
(* Worker counts are doubled throughout.                                   *)
EstimateExogenous(intervals, aggregate) ==
  LET split == {i \in DOMAIN intervals : intervals[i].same}
      counts == SetToSortSeq({intervals[i].x2 : i \in split}, <)
      band(x2) == {i \in split : intervals[i].x2 = x2}
      mean(x2) == <<BurnedOver(intervals, band(x2)), ElapsedOver(intervals, band(x2))>>
      pairs == SetToSeq({p \in (1 .. Len(counts)) \X (1 .. Len(counts)) : p[1] < p[2]})
      slope(p) == LET l == mean(counts[p[1]]) r == mean(counts[p[2]])
                  IN  <<r[1] * l[2] - l[1] * r[2],
                        r[2] * l[2] * (counts[p[2]] - counts[p[1]])>>
      slopes == SelectSeq([i \in DOMAIN pairs |-> slope(pairs[i])], LAMBDA q : q[1] > 0)
      steepness == UpperMedian(slopes)
      intercept(x2) == LET m == mean(x2)
                       IN  <<m[1] * steepness[2] - steepness[1] * x2 * m[2],
                             m[2] * steepness[2]>>
  IN  IF counts # <<>> /\ counts[1] = 0 THEN ClampRate(mean(0), aggregate)
      ELSE IF slopes = <<>> THEN NoRate
      ELSE ClampRate(UpperMedian([i \in DOMAIN counts |-> intercept(counts[i])]), aggregate)

NoEstimate == [burned |-> 0, elapsed |-> 0, exogenous |-> NoRate, perWorker |-> NoRate]

(* estimate_aggregate_burn: the samples of the baseline, if it is there;   *)
(* what was burned between them, where a flat series is no measure; and    *)
(* the estimate made of it.                                                *)
BaselineSamples(samples, current) ==
  LET all == IF samples = <<>> \/ Last(samples).at < current.at
             THEN Append(samples, current) ELSE samples
      covering == Covering(all, current.at, Baseline)
  IN  IF Len(covering) < 3 THEN <<>> ELSE covering

MeasuredBurn(samples) ==
  LET elapsed == Last(samples).at - samples[1].at
      intervals == Intervals(samples)
      burned == BurnedOver(intervals, DOMAIN intervals)
  IN  IF samples = <<>> \/ elapsed < Baseline \/ burned = 0 THEN [burned |-> 0, elapsed |-> 0]
      ELSE [burned |-> burned, elapsed |-> elapsed]

EstimateAggregate(samples, current) ==
  LET baseline == BaselineSamples(samples, current)
      intervals == Intervals(baseline)
      total == MeasuredBurn(baseline)
      ticks2 == WorkerTicks2(intervals)
      exogenous == EstimateExogenous(intervals, <<total.burned, total.elapsed>>)
      perWorker == IF exogenous = NoRate \/ ticks2 = 0 THEN NoRate
                   ELSE <<2 * (total.burned * exogenous[2] - exogenous[1] * total.elapsed),
                          exogenous[2] * ticks2>>
  IN  IF total.burned = 0 THEN NoEstimate
      ELSE [burned |-> total.burned, elapsed |-> total.elapsed,
            exogenous |-> exogenous, perWorker |-> perWorker]

(* workers_for_rate on fractions.                                          *)
WorkersForRate(required, perWorker) ==
  LET n == required[1] * perWorker[2]
      d == required[2] * perWorker[1]
  IN  (n + d - 1) \div d

(* What banked_reset_decision makes of an estimate and a required rate.    *)
BurnOf(estimate, required, missed) ==
  LET exogenous == estimate.exogenous
      rest == <<required[1] * exogenous[2] - exogenous[1] * required[2],
                required[2] * exogenous[2]>>
      split == estimate.perWorker # NoRate /\ estimate.perWorker[1] > 0
  IN  [kind |-> IF estimate = NoEstimate THEN "none" ELSE IF split THEN "split" ELSE "unsplit",
       workers |-> IF ~split \/ rest[1] < 0 THEN 0 ELSE WorkersForRate(rest, estimate.perWorker),
       missed |-> missed]

(* estimate_window_burn: an unbroken, rising series of one generation with *)
(* workers at every step but the last.                                     *)
EstimateWindow(samples, current, window, staleAfter) ==
  LET covering == Covering(samples, current.at, window)
      all == Append(covering, current)
      step(i) == LET p == all[i] n == all[i + 1]
                 IN  /\ n.at - p.at \in 0 .. staleAfter
                     /\ n.used >= p.used
                     /\ p.workers # 0
      usable == /\ covering # <<>>
                /\ \A i \in DOMAIN all : SameGeneration(all[i].resets, current.resets)
                /\ \A i \in 1 .. Len(all) - 1 : step(i)
      burned == current.used - all[1].used
      ticks == SumOver([i \in 1 .. Len(all) - 1 |-> (all[i + 1].at - all[i].at) * all[i].workers],
                       1 .. Len(all) - 1)
  IN  IF usable /\ burned > 0 /\ ticks > 0
      THEN [burned |-> burned, elapsed |-> current.at - all[1].at, ticks |-> ticks]
      ELSE [burned |-> 0, elapsed |-> 0, ticks |-> 0]
=============================================================================
