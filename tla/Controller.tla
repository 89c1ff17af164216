----------------------------- MODULE Controller -----------------------------
(***************************************************************************)
(* The pure controller: from one quota snapshot, the account's recorded    *)
(* state and the current worker count to a target.  No variables.          *)
(*                                                                         *)
(* Utilization is an integer 0 .. Full (the code's fraction in [0, 1]),    *)
(* a reset generation a natural number (the code compares resets_at within *)
(* a jitter tolerance), and time differences small integers.  Rates are    *)
(* never formed: a required worker count is one exact ceiling division,    *)
(* which is what workers_for_rate's 1e-9 snap-to-integer computes.  Every  *)
(* weekly window has a policy, and no policy sets burn_rate_window_seconds *)
(* (the estimate over recorded history).                                   *)
(*                                                                         *)
(* A reading of a window is [used, gen, remaining, elapsed]: remaining is  *)
(* the time to its reset (0 when the reset is due) and elapsed the time    *)
(* since the recorded sample.  reached holds exactly when used is Full, as *)
(* the collectors set it.  A snapshot is                                   *)
(*   [stale, windows, backlog, credits, burn, fraction]                    *)
(* with stale = ~fresh or older than stale_after_seconds, windows a        *)
(* function from the window ids the provider reported to readings, backlog *)
(* the eligible work (Unbounded when not reported), credits the banked     *)
(* resets, burn what the 24-hour aggregate estimator found, and fraction   *)
(* the upstream 429 fraction (NoSignal when absent).                       *)
(***************************************************************************)
EXTENDS StepLimits, FiniteSets

CONSTANTS
  Full,              \* utilization 1.0
  Target,            \* policy target of each enabled window id
  Weekly,            \* the window ids at least six days long
  Strategy,          \* "linear_to_reset" or "ceiling_only", per window id
  MinimumSample,     \* minimum_sample_seconds
  StaleBehavior,     \* "hold" or "min_workers"
  Bootstrap,         \* bootstrap_workers
  BankedEnabled, FullSpeed, RedeemAt,      \* banked_resets policy
  HoldAbove, StepDownAbove, RecoverBelow,  \* backpressure thresholds
  QuietCycles, SignalLossRelease           \* backpressure recovery

Unbounded == -1
NoSignal == -1
Never == -1
NoSample == [gen |-> 0, used |-> 0, workers |-> 0]
NoBanked == [manual |-> FALSE, desired |-> 0, capacity |-> 0]
NormalBrake == [mode |-> "normal", quiet |-> 0, age |-> Never]

ASSUME ControllerAssumption ==
  /\ Full \in Nat \ {0}
  /\ Weekly \subseteq DOMAIN Target
  /\ DOMAIN Strategy = DOMAIN Target
  /\ \A w \in DOMAIN Target : Target[w] \in 0 .. Full
  /\ \A w \in DOMAIN Strategy : Strategy[w] \in {"linear_to_reset", "ceiling_only"}
  /\ StaleBehavior \in {"hold", "min_workers"}
  /\ Bootstrap \in Nat /\ MinimumSample \in Nat
  /\ BankedEnabled \in BOOLEAN /\ FullSpeed \in BOOLEAN
  /\ RedeemAt \in 1 .. Full
  /\ RecoverBelow < HoldAbove /\ HoldAbove < StepDownAbove
  /\ QuietCycles \in Nat \ {0} /\ SignalLossRelease \in Nat

CeilDiv(a, b) == (a + b - 1) \div b

Reached(r) == r.used >= Full

-----------------------------------------------------------------------------
(* One enabled window's own request (evaluate's loop body).                *)
WindowTarget(w, banked) ==
  IF banked /\ w \in Weekly THEN Max2(Target[w], RedeemAt) ELSE Target[w]

UsableSample(r, sample) ==
  /\ sample.workers > 0
  /\ sample.gen = r.gen
  /\ r.elapsed >= MinimumSample
  /\ r.used >= sample.used

(* required rate over observed rate per worker, rounded up.                *)
PacedWorkers(r, sample, target) ==
  CeilDiv((target - r.used) * r.elapsed * sample.workers,
          r.remaining * (r.used - sample.used))

WindowReason(w, r, sample, current, banked) ==
  LET atTarget == Reached(r) \/ r.used >= WindowTarget(w, banked)
      due == r.remaining <= 0
      linear == Strategy[w] = "linear_to_reset"
      usable == UsableSample(r, sample)
      burned == r.used > sample.used /\ r.elapsed > 0
  IN  CASE atTarget -> "target_reached"
        [] ~atTarget /\ due -> "reset_due"
        [] ~atTarget /\ ~due /\ ~linear -> "below_ceiling"
        [] ~atTarget /\ ~due /\ linear /\ usable /\ burned -> "paced_to_reset"
        [] ~atTarget /\ ~due /\ linear /\ usable /\ ~burned -> "no_observed_burn"
        [] ~atTarget /\ ~due /\ linear /\ ~usable /\ current = 0 -> "bootstrap_burn_rate"
        [] ~atTarget /\ ~due /\ linear /\ ~usable /\ current # 0 -> "learning_burn_rate"

WindowDesired(w, r, sample, current, banked, fleet) ==
  LET reason == WindowReason(w, r, sample, current, banked)
      raw == CASE reason = "target_reached" -> fleet.min_workers
               [] reason = "below_ceiling" -> fleet.max_workers
               [] reason = "paced_to_reset" -> PacedWorkers(r, sample, WindowTarget(w, banked))
               [] reason = "bootstrap_burn_rate" -> Bootstrap
               [] reason \in {"reset_due", "no_observed_burn", "learning_burn_rate"} -> current
  IN  Clamp(raw, fleet.min_workers, fleet.max_workers)

-----------------------------------------------------------------------------
(* banked_reset_decision.  The aggregate estimator is an input: it finds   *)
(* no 24-hour baseline ("none"), a burn it cannot split between workers    *)
(* and other usage ("unsplit"), or a worker count that meets the required  *)
(* burn ("split").  missed: a known expiry leaves no time.                 *)
GoverningWindow(windows) ==
  CHOOSE w \in DOMAIN windows \cap Weekly :
    \A v \in DOMAIN windows \cap Weekly : windows[v].used <= windows[w].used

BankedAvailable(snap) == BankedEnabled /\ snap.credits > 0

BankedApplies(snap) ==
  BankedAvailable(snap) /\ DOMAIN snap.windows \cap Weekly \cap DOMAIN Target # {}

(* reached now, or the recorded peak of this generation reached it.        *)
ManualRedemption(r, latch) ==
  \/ Reached(r)
  \/ r.used >= RedeemAt
  \/ latch.gen = r.gen /\ latch.peak >= RedeemAt

BankedDesired(r, latch, burn, capacity, current, fleet) ==
  LET manual == ManualRedemption(r, latch)
      paced == ~manual /\ ~FullSpeed
  IN  CASE manual -> fleet.min_workers
        [] ~manual /\ FullSpeed -> IF r.remaining <= 0 THEN current ELSE capacity
        [] paced /\ burn.missed -> capacity
        [] paced /\ ~burn.missed /\ burn.kind = "split" ->
             Clamp(burn.workers, Min2(fleet.min_workers, capacity), capacity)
        [] paced /\ ~burn.missed /\ burn.kind = "unsplit" -> current
        [] paced /\ ~burn.missed /\ burn.kind = "none" ->
             Min2(IF current = 0 THEN Bootstrap ELSE current, capacity)

BankedPlan(snap, latches, current, fleet) ==
  LET w == GoverningWindow(snap.windows)
      capacity == Min2(IF snap.backlog = Unbounded THEN current ELSE snap.backlog,
                       fleet.max_workers)
  IN  [manual |-> ManualRedemption(snap.windows[w], latches[w]),
       desired |-> BankedDesired(snap.windows[w], latches[w], snap.burn, capacity, current, fleet),
       capacity |-> capacity]

-----------------------------------------------------------------------------
(* evaluate.                                                               *)
EnabledWindows(snap) == DOMAIN snap.windows \cap DOMAIN Target

StaleDesired(current, fleet) ==
  LET raw == IF StaleBehavior = "hold" THEN current ELSE fleet.min_workers
  IN  Min2(ApplyStepLimits(raw, current, fleet), current)

MinOver(S) == CHOOSE n \in S : \A m \in S : n <= m

(* Known work bounds every request; unreported work bounds nothing.        *)
WorkCap(n, snap) == IF snap.backlog = Unbounded THEN n ELSE Min2(n, snap.backlog)

(* What a banked plan's capacity does to a stepped target.                 *)
CappedAtWork(stepped, current, capacity) ==  \* variant: no gradual scale-down
  Min2(stepped, capacity)

BankedCap(stepped, current, capacity) ==
  Min2(stepped, IF FullSpeed THEN Max2(current, capacity) ELSE capacity)

FreshDesired(snap, prior, current, fleet) ==
  LET banked == BankedAvailable(snap)
      want == [w \in EnabledWindows(snap) |->
                 WindowDesired(w, snap.windows[w], prior.sample[w], current, banked, fleet)]
      reason == [w \in EnabledWindows(snap) |->
                 WindowReason(w, snap.windows[w], prior.sample[w], current, banked)]
      short == EnabledWindows(snap) \ Weekly
      ordinary == MinOver({want[w] : w \in DOMAIN want})
      plan == IF BankedApplies(snap) THEN BankedPlan(snap, prior.latch, current, fleet) ELSE NoBanked
      guards == {w \in DOMAIN want :
                   \/ reason[w] = "reset_due"
                   \/ w \in short /\ reason[w] \in {"target_reached", "paced_to_reset"}}
      raw == IF ~BankedApplies(snap) THEN ordinary
             ELSE IF plan.manual THEN plan.desired
             ELSE IF FullSpeed THEN MinOver({plan.desired} \cup {want[w] : w \in guards})
             ELSE IF \E w \in short : reason[w] = "target_reached" THEN ordinary
             ELSE Max2(ordinary, plan.desired)
      stepped == ApplyStepLimits(WorkCap(raw, snap), current, fleet)
      capped == IF BankedApplies(snap) THEN BankedCap(stepped, current, plan.capacity) ELSE stepped
  IN  IF snap.backlog = Unbounded THEN capped ELSE Min2(capped, Max2(current, snap.backlog))

EvaluateAnyAge(snap, prior, current, fleet) ==  \* variant: trusts stale readings
  FreshDesired(snap, prior, current, fleet)

Evaluate(snap, prior, current, fleet) ==
  IF snap.stale THEN StaleDesired(current, fleet)
                ELSE FreshDesired(snap, prior, current, fleet)

(* evaluate_pool and into_elastic: the roster's unowned workers spend the  *)
(* same quota, so the pool is sized as a whole and converted back.         *)
PoolFleet(fleet, unowned) ==
  [fleet EXCEPT !.min_workers = @ + unowned, !.max_workers = @ + unowned]

EvaluateElasticOnly(snap, prior, owned, unowned, fleet) ==  \* variant: forgets the roster
  Evaluate(snap, prior, owned, fleet)

EvaluatePool(snap, prior, owned, unowned, fleet) ==
  SaturatingSub(Evaluate(snap, prior, owned + unowned, PoolFleet(fleet, unowned)), unowned)

-----------------------------------------------------------------------------
(* apply_backpressure.  age is the time since the last usable sample.      *)
BrakeOnSample(brake, fraction) ==
  LET quiet == brake.quiet + 1
      escalates == brake.mode = "hold" /\ fraction > StepDownAbove
      calm == brake.mode # "normal" /\ ~escalates /\ fraction < RecoverBelow
      recovers == calm /\ quiet >= QuietCycles
  IN  [mode |-> IF brake.mode = "normal"
                THEN IF fraction > HoldAbove THEN "hold" ELSE "normal"
                ELSE IF escalates THEN "step_down"
                ELSE IF recovers THEN IF brake.mode = "hold" THEN "normal" ELSE "hold"
                ELSE brake.mode,
       quiet |-> IF calm /\ ~recovers THEN quiet ELSE 0,
       age |-> 0]

BrakeKeptWithoutSample(brake) == brake  \* variant: only evidence releases

BrakeWithoutSample(brake) ==
  IF /\ brake.mode # "normal"
     /\ brake.age = Never \/ brake.age >= SignalLossRelease
  THEN NormalBrake
  ELSE brake

NextBrake(brake, snap) ==
  IF ~snap.stale /\ snap.fraction # NoSignal
  THEN BrakeOnSample(brake, snap.fraction)
  ELSE BrakeWithoutSample(brake)

BrakedHoldOnly(brake, desired, current, minWorkers) ==  \* variant: step_down only holds
  IF brake.mode = "normal" THEN desired ELSE Min2(desired, Max2(current, minWorkers))

Braked(brake, desired, current, minWorkers) ==
  CASE brake.mode = "normal" -> desired
    [] brake.mode = "hold" -> Min2(desired, Max2(current, minWorkers))
    [] brake.mode = "step_down" ->
         Min2(desired, Max2(SaturatingSub(current, 1), minWorkers))

-----------------------------------------------------------------------------
(* record_samples: the newest sample per reported window, and the peak of  *)
(* its generation.  A window missing from the snapshot is forgotten.       *)
RecordSamples(snap, workers) ==
  [w \in DOMAIN Target |->
     IF w \in DOMAIN snap.windows
     THEN [gen |-> snap.windows[w].gen, used |-> snap.windows[w].used, workers |-> workers]
     ELSE NoSample]

NoLatch == [gen |-> 0, peak |-> 0]

RecordLastReading(latches, snap) ==  \* variant: the latest reading, not the peak
  [w \in DOMAIN Target |->
     IF w \in DOMAIN snap.windows
     THEN [gen |-> snap.windows[w].gen, peak |-> snap.windows[w].used]
     ELSE NoLatch]

RecordLatches(latches, snap) ==
  [w \in DOMAIN Target |->
     IF w \in DOMAIN snap.windows
     THEN LET r == snap.windows[w] IN
          [gen |-> r.gen,
           peak |-> IF latches[w].gen = r.gen THEN Max2(latches[w].peak, r.used) ELSE r.used]
     ELSE NoLatch]
=============================================================================
