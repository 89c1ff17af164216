----------------------------- MODULE Saturation -----------------------------
(***************************************************************************)
(* saturation.rs: bounded throughput experiments on one elastic fleet.     *)
(* The governor changes the worker count by one step, waits until the      *)
(* change is observed and a whole measurement window lies behind it, and   *)
(* keeps the change or takes it back.                                      *)
(*                                                                         *)
(* Instants are kept as ages on the axis of the snapshots' observed_at,    *)
(* capped at AgeCap, which no comparison of the code can tell from a       *)
(* larger age; next_probe_at is kept as the time that is left.  A rate is  *)
(* a natural number and plateau_fraction is Plateau/Unit.  The quota side  *)
(* is one of the cases the code tells apart.                               *)
(***************************************************************************)
EXTENDS StepLimits, Sequences, FiniteSets

CONSTANTS
  Fleet,          \* fleet bounds and steps
  Bootstrap,      \* fleet.bootstrap_workers
  Unowned,        \* workers of the roster
  Step,           \* zai_saturation.step_workers
  Dwell, Reprobe, \* dwell_seconds, reprobe_seconds
  StaleAfter,     \* utilization.stale_after_seconds
  Windows,        \* window lengths of acceptable samples
  Deltas,         \* time between two snapshots (0: the same snapshot again)
  Rates, Plateau, Unit,
  Track,          \* whether the history variable is kept
  Backlogs        \* eligible_backlog_capacity values (None: not reported)

None == -1

Cap == Max2(StaleAfter, Dwell)
AgeCap == 1 + (CHOOSE n \in {Cap} \cup Windows : \A m \in {Cap} \cup Windows : n >= m)

ASSUME SaturationFleet == Fleet \in Fleets /\ Bootstrap \in Nat /\ Unowned \in Nat
ASSUME SaturationPolicy ==
  /\ Step \in Nat \ {0} /\ Dwell \in Nat /\ Reprobe \in Nat /\ StaleAfter \in Nat
  /\ Windows \subseteq Nat /\ IsFiniteSet(Windows)
  /\ Deltas \subseteq Nat /\ Rates \subseteq Nat
  /\ Plateau \in Nat /\ Unit \in Nat \ {0} /\ Plateau <= Unit
  /\ Backlogs \subseteq Nat \cup {None}

VARIABLES
  running,  \* workers of the elastic tier, as the observer reports them
  sat,      \* AccountState::zai_saturation
  target,   \* desired_workers of the last decision
  quiet,    \* history: [seen, since], for how long observations saw the same count
  steady    \* 0, then 1 and 2 in turn once every sample is usable and every launch works

saturationVars == <<running, sat, target, quiet, steady>>

(* SaturationState::default and SaturationProbe.                           *)
NoProbe == <<>>
Probe(from, to, baseline, recovery) ==
  [from |-> from, to |-> to, baseline |-> baseline, recovery |-> recovery]
Fresh == [pending |-> NoProbe, baseline |-> None, plateau |-> None, shrinking |-> FALSE,
          observed |-> None, settled |-> None, last |-> None, wait |-> 0]

Pending(s) == s.pending # NoProbe

(* Time passes between two snapshots.                                      *)
Older(age, dt) == IF age = None THEN None ELSE Min2(age + dt, AgeCap)
Aged(s, dt) == [s EXCEPT !.settled = Older(@, dt), !.last = Older(@, dt),
                         !.wait = SaturatingSub(@, dt)]

(* What evaluate_pool left: "hold" is a learning or no-burn hold on every  *)
(* window, "paced" a measured decision, "reached" a window that is used up *)
(* or due, "changed" a hold in a new reset generation or with a snapshot   *)
(* from the future.                                                        *)
Down == Max2(SaturatingSub(running, Fleet.max_scale_down_per_cycle), Fleet.min_workers)
Up == Min2(running + Fleet.max_scale_up_per_cycle, Fleet.max_workers)
Quotas ==
  [kind : {"hold", "changed"}, desired : {running}]
    \cup [kind : {"paced"}, desired : {Down, running, Up}]
    \cup [kind : {"reached", "stale"}, desired : {Down, running}]
NoSample == <<>>
Samples == [rate : Rates, window : Windows, many : BOOLEAN, pressured : BOOLEAN]

(* A sample is not read when the quota side is bound, when the snapshot is *)
(* the last one again (dt = 0) or comes after a gap in the signal.         *)
Bounds == {"reached", "stale", "changed"}
Inputs ==
  [quota : {q \in Quotas : q.kind \notin Bounds}, sample : Samples \cup {NoSample},
   dt : Deltas \cap 1 .. StaleAfter, backlog : Backlogs]
    \cup [quota : Quotas, sample : {NoSample}, dt : Deltas, backlog : Backlogs]

(* The steady regime: advancing snapshots with valid samples, no measured  *)
(* quota limit and work for everybody.                                     *)
UsableInputs ==
  { in \in [quota : [kind : {"hold"}, desired : {running}],
            sample : {x \in Samples : x.many},
            dt : Deltas \cap 1 .. StaleAfter, backlog : Backlogs] :
      in.backlog >= Fleet.max_workers }

Bound(in) == in.quota.kind \in Bounds
QuotaCap(in) ==
  IF in.quota.kind \in {"hold", "changed"} THEN Fleet.max_workers ELSE in.quota.desired

(* The low-attempt exception: a fleet that reached the probed count is     *)
(* judged even when little is going on.                                    *)
LowAttemptProbe(s, in) ==
  /\ Pending(s) /\ running = s.pending.to
  /\ in.backlog # None /\ in.backlog >= Max2(running, s.pending.from)

Valid(s, in) == in.sample # NoSample /\ (in.sample.many \/ LowAttemptProbe(s, in))
Repeated(s) == s.last # None /\ s.last <= 0

(* interval_ready: the window began after the count settled, and the dwell *)
(* time has passed.                                                        *)
IntervalReady(s, in) == s.settled # None /\ s.settled >= in.sample.window /\ s.settled >= Dwell

-----------------------------------------------------------------------------
(* The branches of apply_zai_saturation.  Each gives the new state, the    *)
(* wanted count and the reason; `drain` is the default target: a drain     *)
(* that was requested goes on without evidence, a growth never does.       *)
Result(s, wanted, reason) == [state |-> s, target |-> wanted, reason |-> reason]

DrainOrGrow(s) == IF Pending(s) THEN s.pending.to ELSE running  \* variant: repeats a growth

Drain(s) == IF Pending(s) THEN Min2(s.pending.to, running) ELSE running

Settle(s) == [s EXCEPT !.settled = 0, !.observed = running]

(* A probe is pending, but the fleet is not at the probed count.           *)
Unreached(s) ==
  LET low == Min2(s.pending.from, s.pending.to)
      high == Max2(s.pending.from, s.pending.to)
  IN  IF running = s.pending.from \/ (running > low /\ running < high)
      THEN Result([s EXCEPT !.settled = None], s.pending.to, "waiting_for_workers")
      ELSE Result(Fresh, Drain(s), "worker_count_changed")

Retained(s, rate) ==
  rate * Unit >= (IF s.plateau = None THEN s.pending.baseline ELSE s.plateau) * (Unit - Plateau)
UsefulGain(s, rate) == rate * Unit > s.pending.baseline * (Unit + Plateau)

RollBackTwice(s, p) ==  \* variant: the way back is an experiment of its own
  [s EXCEPT !.pending = Probe(running, p.from, s.baseline, FALSE),
            !.shrinking = p.to > p.from, !.wait = Reprobe]
RollBackStubborn(s, p) ==  \* variant: a failed shrink does not end the downward search
  [s EXCEPT !.pending = Probe(running, p.from, s.baseline, TRUE),
            !.shrinking = TRUE, !.wait = Reprobe]

(* A failed change is taken back, as a recovery probe of its own.  A       *)
(* failed growth starts a downward search, a failed shrink ends one.       *)
RollBack(s, p) ==
  [s EXCEPT !.pending = Probe(running, p.from, s.baseline, TRUE),
            !.shrinking = p.to > p.from, !.wait = Reprobe]

(* The verdict on a probe whose interval is complete.                      *)
Verdict(s, in) ==
  LET p == s.pending
      rate == in.sample.rate
      done == [s EXCEPT !.pending = NoProbe, !.baseline = rate, !.settled = 0]
  IN  CASE p.recovery ->
             Result(IF s.shrinking THEN done ELSE [done EXCEPT !.plateau = rate],
                    Drain(s), "recovery_settled")
        [] ~p.recovery /\ p.to < p.from /\ Retained(s, rate) ->
             Result([done EXCEPT !.shrinking = TRUE], Drain(s), "shrink_retained_throughput")
        [] ~p.recovery /\ p.to > p.from /\ UsefulGain(s, rate) ->
             Result([done EXCEPT !.plateau = rate, !.shrinking = in.sample.pressured],
                    Drain(s), "growth_improved_throughput")
        [] OTHER -> Result(RollBack(done, p), p.from, "restore_previous_count")

RestlessJudge(s, in) ==  \* variant: the settling time starts again with every sample
  IF running # s.pending.to THEN Unreached(s)
  ELSE Result(Settle(s), Drain(s), "probe_settling")

Judge(s, in) ==
  CASE running # s.pending.to -> Unreached(s)
    [] running = s.pending.to /\ (s.settled = None \/ s.observed # running) ->
         Result(Settle(s), Drain(s), "probe_settling")
    [] OTHER -> IF IntervalReady(s, in) THEN Verdict(s, in)
                ELSE Result(s, Drain(s), "probe_dwell")

(* A new experiment from a settled baseline.                               *)
Candidate(shrinks) ==
  IF shrinks
  THEN Max2(SaturatingSub(running, Step),
            IF Unowned = 0 THEN Max2(Fleet.min_workers, 1) ELSE Fleet.min_workers)
  ELSE Min2(running + Step, Fleet.max_workers)

Experiment(s, in) ==
  LET rate == in.sample.rate
      based == [s EXCEPT !.baseline = rate]
      shrinks == s.shrinking \/ in.sample.pressured
      to == Candidate(shrinks)
      backlogOk == in.backlog # None /\ in.backlog >= Max2(to, running)
  IN  IF to # running /\ backlogOk /\ to <= QuotaCap(in) /\ (shrinks \/ rate > 0)
      THEN Result([based EXCEPT !.pending = Probe(running, to, rate, FALSE), !.settled = None,
                                !.plateau = IF s.shrinking THEN @ ELSE rate],
                  to, IF shrinks THEN "probe_shrink" ELSE "probe_growth")
      ELSE Result(IF shrinks /\ to = running
                  THEN [based EXCEPT !.shrinking = FALSE, !.wait = Reprobe] ELSE based,
                  Drain(s), IF backlogOk THEN "worker_or_quota_bound" ELSE "insufficient_backlog")

ObserveSample(s, in) ==
  CASE Pending(s) -> Judge(s, in)
    [] ~Pending(s) /\ (s.observed # running \/ s.baseline = None) ->
         Result([Settle(s) EXCEPT !.baseline = in.sample.rate, !.plateau = in.sample.rate],
                Drain(s), "baseline")
    [] OTHER -> IF IntervalReady(s, in) /\ s.wait = 0 THEN Experiment(s, in)
                ELSE Result(s, Drain(s), "baseline_dwell")

(* A stopped fleet is started without evidence, given work and quota.      *)
NothingRuns(in) ==
  /\ running = 0 /\ Unowned = 0 /\ in.backlog # None /\ in.backlog > 0
  /\ Fleet.max_workers > 0 /\ QuotaCap(in) > 0

Weigh(s, in) ==
  CASE Bound(in) -> Result(Fresh, Drain(s), "quota_or_freshness_bound")
    [] ~Bound(in) /\ NothingRuns(in) -> Result(Fresh, Max2(Bootstrap, 1), "bootstrap_for_evidence")
    [] OTHER ->
         IF s.last # None /\ s.last > StaleAfter THEN Result(Fresh, Drain(s), "signal_gap")
         ELSE IF Repeated(s) THEN Result(s, Drain(s), "repeated_sample")
         ELSE IF Valid(s, in) THEN ObserveSample([s EXCEPT !.last = 0], in)
         ELSE Result(s, Drain(s), "insufficient_signal")

(* The common end: backlog, fleet range and step, then the quota result;   *)
(* an experiment that they cut short is forgotten.                         *)
Limit(result, in) ==
  LET backlogCap == IF in.backlog = None THEN running ELSE in.backlog
      capped == Min2(Min2(result.target, Min2(backlogCap, Fleet.max_workers)),
                     running + Fleet.max_scale_up_per_cycle)
      stepped == Max2(capped, SaturatingSub(running, Fleet.max_scale_down_per_cycle))
      desired == Min2(stepped, QuotaCap(in))
      cut == \/ desired # stepped
             \/ /\ Pending(result.state)
                /\ result.state.pending.to > Min2(QuotaCap(in), backlogCap)
  IN  IF cut
      THEN Result([result.state EXCEPT !.pending = NoProbe, !.baseline = None, !.settled = None],
                  desired, "quota_or_backlog_bound")
      ELSE Result(result.state, desired, result.reason)

ApplyZaiSaturation(s, in) == Limit(Weigh(Aged(s, in.dt), in), in)

-----------------------------------------------------------------------------
SaturationInit ==
  /\ running \in Fleet.min_workers .. Fleet.max_workers
  /\ sat = Fresh
  /\ target = running
  /\ quiet = [seen |-> IF Track THEN running ELSE 0, since |-> 0]
  /\ steady = 0

(* The workers that one actuation leaves: a launch or a drain may be cut   *)
(* short.  The state is stored before the actuator runs.                   *)
Between(a, b) == Min2(a, b) .. Max2(a, b)

(* The count the next cycle is told when n workers run: reconciled with    *)
(* the fleet range, or an error that ends the cycle.                       *)
Reported(n) == Clamp(n, Fleet.min_workers, Fleet.max_workers)

Quiet(dt) ==
  IF Track
  THEN [seen |-> running,
        since |-> IF quiet.seen = running THEN Min2(quiet.since + dt, Dwell) ELSE 0]
  ELSE quiet

CycleWith(in, complete) ==
  LET result == ApplyZaiSaturation(sat, in)
  IN  /\ sat' = result.state
      /\ target' = result.target
      /\ \E n \in IF complete THEN {result.target} ELSE Between(running, result.target) :
           running' = Reported(n)
      /\ quiet' = Quiet(in.dt)

Cycle == steady = 0 /\ UNCHANGED steady /\ \E in \in Inputs : CycleWith(in, FALSE)

SteadyTick == steady # 0 /\ steady' = 3 - steady
SteadyCycle == SteadyTick /\ \E in \in UsableInputs : CycleWith(in, TRUE)

(* A worker exits, or an operator or a placement changes the count.        *)
CountChanges ==
  /\ steady = 0
  /\ running' \in {Reported(SaturatingSub(running, 1)), Reported(running + 1)}
  /\ UNCHANGED <<sat, target, quiet, steady>>

BecomeSteady ==
  /\ steady = 0 /\ steady' = 1
  /\ UNCHANGED <<running, sat, target, quiet>>

SaturationNext == Cycle \/ SteadyCycle \/ CountChanges \/ BecomeSteady

SaturationSpec == SaturationInit /\ [][SaturationNext]_saturationVars

(* The run loop goes on.  A steady cycle is always possible and is the     *)
(* only step that changes steady.                                          *)
SaturationFairSpec == SaturationSpec /\ WF_steady(SteadyTick)

-----------------------------------------------------------------------------
(* A change of the count while a probe is measured invalidates its         *)
(* attribution ("Manual/placement changes invalidate attribution" in       *)
(* apply_zai_saturation): a verdict is only passed on a count that every   *)
(* observation of the dwell time has seen.  The code does not keep this: a *)
(* change seen only by a cycle without a usable sample goes unnoticed.     *)
VerdictOnQuietFleet ==
  [][ Pending(sat) /\ sat'.pending # sat.pending /\ sat'.settled = 0 =>
        quiet'.since >= Dwell ]_saturationVars

(* An upward move needs evidence, now or when its experiment began: with   *)
(* no experiment pending and no usable sample the fleet is not enlarged,   *)
(* unless it was stopped and has work.  Missing evidence never creates or  *)
(* repeats an upward probe.                                                *)
GrowthNeedsEvidence ==
  [][ target' > running /\ sat' # sat =>
        \/ running = 0 /\ sat' = Fresh
        \/ Pending(sat') /\ ~Pending(sat) /\ ~sat.shrinking /\ sat.baseline # None
        \/ Pending(sat) /\ sat'.last = 0
             /\ target' <= Max2(sat.pending.from, sat.pending.to) ]_saturationVars

(* An unproductive change is taken back to the count it came from, never   *)
(* further, and nothing else is tried before that count has settled.       *)
RollbackFirst ==
  [][ Pending(sat) /\ Pending(sat') /\ sat'.pending # sat.pending =>
        /\ ~sat.pending.recovery /\ sat'.pending.recovery
        /\ sat'.pending.to = sat.pending.from /\ running = sat.pending.to ]_saturationVars

(* Every experiment ends, given usable samples and workers that start.     *)
ProbesResolve == (steady # 0 /\ Pending(sat)) ~> ~Pending(sat)

(* "Avoid a permanent downward-only latch": the downward search never      *)
(* lasts for ever.                                                         *)
NoDownwardLatch == (steady # 0) ~> ~sat.shrinking
=============================================================================
