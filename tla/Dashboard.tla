------------------------------ MODULE Dashboard ------------------------------
(***************************************************************************)
(* What `subgov dashboard` shows of one quota window: collect takes the    *)
(* time, reads the state file, then the snapshot file of the source, and   *)
(* measures the account's consumption from what the two hold.  It never    *)
(* calls a provider.  No variables.  A snapshot is [at, used, resets].     *)
(***************************************************************************)
EXTENDS Estimators

CONSTANTS
  Lookback,       \* burn_rate_window_seconds, or an hour
  StaleAfter,     \* stale_after_seconds
  MinimumSample   \* minimum_sample_seconds

ASSUME DashboardAssumption == {Lookback, StaleAfter, MinimumSample} \subseteq Nat

(* collect: the recorded sample, unless the snapshot file is as new.       *)
ShownSample(memory, snapshot) ==
  IF /\ snapshot # <<>>
     /\ memory.window = <<>> \/ memory.window[1].at <= snapshot[1].at
  THEN <<[at |-> snapshot[1].at, used |-> snapshot[1].used,
          resets |-> snapshot[1].resets, workers |-> 0]>>
  ELSE memory.window

RunOnAcrossResets(run, sample, current, now) ==  \* variant: ignores the reset time
  IF sample.at > now \/ current.at - sample.at > Lookback THEN <<>>
  ELSE IF run # <<>> /\ sample.used < Last(run).used THEN <<sample>>
  ELSE Append(run, sample)

(* compatible_history, one sample further: a gap or a fall starts a new    *)
(* run with the sample, anything unusable starts an empty one.             *)
RunOn(run, sample, current, now) ==
  IF \/ sample.at > now
     \/ current.at - sample.at > Lookback
     \/ ~SameGeneration(sample.resets, current.resets)
  THEN <<>>
  ELSE IF run # <<>> /\ \/ sample.at - Last(run).at > StaleAfter
                        \/ sample.used < Last(run).used
  THEN <<sample>>
  ELSE Append(run, sample)

(* The next time the samples know of.  Of the samples of one time the      *)
(* first is kept: they repeat one reading.                                 *)
RunAt(run, samples, time, current, now) ==
  LET here == {i \in DOMAIN samples : samples[i].at = time}
  IN  IF here = {} THEN run ELSE RunOn(run, samples[Min(here)], current, now)

(* In the order of their times, which begin at 1, up to the current one.   *)
CompatibleHistory(memory, current, now) ==
  LET stamped == [i \in DOMAIN memory.history.samples |->
                    [memory.history.samples[i] EXCEPT !.resets = memory.history.resets]]
      samples == memory.aggregate \o stamped \o <<current>>
      runs[time \in 0 .. current.at] ==
        IF time = 0 THEN <<>> ELSE RunAt(runs[time - 1], samples, time, current, now)
  IN  runs[current.at]

NoMeasure == [burned |-> 0, base |-> 0, at |-> 0]

(* measured_rate: consumption and the times it was measured between.       *)
MeasuredRate(memory, current, now) ==
  LET run == CompatibleHistory(memory, current, now)
      span == current.at - run[1].at
  IN  IF run = <<>> \/ span <= 0 \/ span < MinimumSample \/ current.used < run[1].used
      THEN NoMeasure
      ELSE [burned |-> current.used - run[1].used, base |-> run[1].at, at |-> current.at]

(* window_card.                                                            *)
CardFresh(current, now) ==
  /\ now - current.at \in 0 .. StaleAfter
  /\ current.resets > now

WindowCard(memory, snapshot, now) ==
  LET shown == ShownSample(memory, snapshot)
  IN  IF shown = <<>> \/ ~CardFresh(shown[1], now) THEN NoMeasure
      ELSE MeasuredRate(memory, shown[1], now)
=============================================================================
