--------------------------- MODULE MCAccountCycle ---------------------------
EXTENDS AccountCycle, Estimators

CONSTANTS MinWorkers, MaxWorkers, MaxUp, MaxDown

MCFleet == [min_workers |-> MinWorkers, max_workers |-> MaxWorkers,
            max_scale_up_per_cycle |-> MaxUp, max_scale_down_per_cycle |-> MaxDown]

(* A weekly window paced to its reset and a five-hour window with a plain  *)
(* ceiling, or the weekly window alone.                                    *)
BothTarget == [weekly |-> 2, short |-> 2]
BothStrategy == [weekly |-> "linear_to_reset", short |-> "ceiling_only"]
WeeklyTarget == [weekly |-> 2]
WeeklyStrategy == [weekly |-> "linear_to_reset"]
MCWeekly == {"weekly"}

AllWindows == {{"weekly", "short"}}
WeeklyOnly == {{"weekly"}}

FirstGeneration == [w \in DOMAIN Target |-> 1]
TwoWeeks == [w \in DOMAIN Target |-> IF w = "weekly" THEN 2 ELSE 1]

NoBurn == {[kind |-> "none", workers |-> 0, missed |-> FALSE]}

(* What the aggregate estimator finds in the histories of four readings,   *)
(* one tick apart, with two worker counts, against a slow and a fast       *)
(* required rate.                                                          *)
Histories ==
  {[i \in 1 .. 4 |-> [at |-> i, used |-> used[i], resets |-> resets[i], workers |-> workers[i]]] :
     used \in [1 .. 4 -> 0 .. 2], workers \in [1 .. 4 -> {0, 1}],
     resets \in {<<9, 9, 9, 9>>, <<5, 5, 9, 9>>}}
EstimatedBurns ==
  {BurnOf(EstimateAggregate(Front(h), h[4]), required, missed) :
     h \in Histories, required \in {<<1, 3>>, <<2, 3>>}, missed \in BOOLEAN}

AnyBurn == NoBurn \cup
  {[kind |-> "none", workers |-> 0, missed |-> TRUE],
   [kind |-> "unsplit", workers |-> 0, missed |-> FALSE],
   [kind |-> "split", workers |-> 0, missed |-> FALSE],
   [kind |-> "split", workers |-> 2, missed |-> FALSE]}

(* The burns the runs choose from are ones the estimator can find.         *)
ASSUME BurnsAreEstimated == AnyBurn \subseteq EstimatedBurns

(* The account of the runs is one that Config::validate accepts.           *)
Cfg == INSTANCE Config WITH
         Lower <- {"w"}, Upper <- {}, Digit <- {}, Unit <- Full, MaxSeconds <- 9, Home <- <<>>
AccountOfRun ==
  LET utilization ==
        [Cfg!UtilizationBlock({Full}, {}) EXCEPT
           !.stale_after_seconds = 2, !.minimum_sample_seconds = MinimumSample,
           !.stale_behavior = StaleBehavior,
           !.backpressure = {[recover_below |-> RecoverBelow, hold_above |-> HoldAbove,
                              step_down_above |-> StepDownAbove, quiet_cycles |-> QuietCycles,
                              signal_loss_release_seconds |-> SignalLossRelease]},
           !.windows = [w \in WindowIds |->
                          [Cfg!NoOverride EXCEPT !.target_utilization = {Target[w]},
                                                 !.strategy = {Strategy[w]}]]]
      fleet == [Cfg!FleetBlock(MaxWorkers, {[type |-> "file"]}, Cfg!NoActuator, {}) EXCEPT
                  !.min_workers = MinWorkers, !.bootstrap_workers = Bootstrap,
                  !.max_scale_up_per_cycle = MaxUp, !.max_scale_down_per_cycle = MaxDown]
  IN  [source |-> [type |-> "normalized_file"], fleet |-> fleet, utilization |-> utilization,
       banked_resets |-> [Cfg!DefaultBankedResets EXCEPT
                            !.enabled = BankedEnabled, !.full_speed = FullSpeed,
                            !.redeem_at_utilization = RedeemAt, !.deadline_safety_seconds = 1]]
ASSUME AccountIsAccepted ==
  /\ Cfg!ValidAccount(AccountOfRun)
  /\ \A w \in WindowIds :
       Cfg!policy_for(AccountOfRun.utilization, w) =
         {[target |-> Target[w], burn_rate_window_seconds |-> {}, strategy |-> Strategy[w]]}

SomeWork == {Unbounded, 1, 3}
LittleWork == {Unbounded, 1}
NoPressure == {NoSignal}
SomePressure == {NoSignal, 0, 2, 4}
=============================================================================
