------------------------- MODULE AccountCycleProofs --------------------------
(***************************************************************************)
(* What a decision of the controller promises, cycle after cycle, for any  *)
(* fleet, any windows and policies, any readings, work and pressure, any   *)
(* roster and any combination of the faults.                               *)
(*                                                                         *)
(* First the decision itself, as facts about the controller's operators;   *)
(* then the invariant of the cycle: the types of the recorded state, what  *)
(* the decision being carried out satisfies (DecisionInv), and, for the    *)
(* redemption, that the recorded peaks of the current generations survive  *)
(* in memory and on disk (LatchInv).                                       *)
(***************************************************************************)
EXTENDS AccountCycle, CountLemmas

ReadingType == [used : 0 .. Full, gen : Nat, remaining : Nat, elapsed : Nat]
SampleType == [gen : Nat, used : Nat, workers : Nat]
LatchType == [gen : Nat, peak : Nat]
BrakeModes == {"normal", "hold", "step_down"}
BrakeType == [mode : BrakeModes, quiet : Nat, age : Nat \cup {Never}]
BurnType == [kind : {"none", "unsplit", "split"}, workers : Nat, missed : BOOLEAN]

AccountStates ==
  [sample : [WindowIds -> SampleType], latch : [WindowIds -> LatchType], brake : BrakeType]

(* A snapshot the controller may be given: at least one enabled window.    *)
Usable(snap) ==
  /\ DOMAIN snap.windows \in SUBSET WindowIds
  /\ DOMAIN snap.windows # {}
  /\ \A w \in DOMAIN snap.windows : snap.windows[w] \in ReadingType
  /\ snap.stale \in BOOLEAN
  /\ snap.backlog \in Nat \cup {Unbounded}
  /\ snap.credits \in Nat
  /\ snap.burn \in BurnType
  /\ snap.fraction \in Nat \cup {NoSignal}

-----------------------------------------------------------------------------
(* Decisions.                                                              *)

LEMMA MinOverLeast ==
  ASSUME NEW S \in SUBSET Nat, S # {}
  PROVE  MinOver(S) \in S /\ \A m \in S : MinOver(S) <= m
BY LeastNatural DEF MinOver

(* The nonlinear part: a paced worker count is a quotient of naturals.     *)
LEMMA CeilDivInt ==
  ASSUME NEW a \in Int, NEW b \in Int, b > 0
  PROVE  CeilDiv(a, b) \in Int
BY DEF CeilDiv

LEMMA ProductPositive ==
  ASSUME NEW a \in Int, NEW b \in Int, a > 0, b > 0
  PROVE  a * b \in Int /\ a * b > 0
OBVIOUS

LEMMA ClampInt ==
  ASSUME NEW n \in Int, NEW low \in Nat, NEW high \in Nat, low <= high
  PROVE  Clamp(n, low, high) \in low .. high
BY DEF Clamp, Min2, Max2

(* One window's request is inside the fleet range, whatever its readings   *)
(* and its recorded sample are.                                            *)
LEMMA WindowDesiredInRange ==
  ASSUME NEW w \in WindowIds, NEW r \in ReadingType, NEW sample \in SampleType,
         NEW current \in Nat, NEW banked \in BOOLEAN, NEW fleet \in Fleets
  PROVE  WindowDesired(w, r, sample, current, banked, fleet)
           \in fleet.min_workers .. fleet.max_workers
<1> DEFINE reason == WindowReason(w, r, sample, current, banked)
           paced == PacedWorkers(r, sample, WindowTarget(w, banked))
<1>1. /\ r.used \in Nat /\ r.remaining \in Nat /\ r.elapsed \in Nat
      /\ sample.used \in Nat /\ sample.workers \in Nat
  BY ControllerAssumption DEF ReadingType, SampleType
<1>2. WindowTarget(w, banked) \in Nat
  <2>1. Target[w] \in Nat /\ RedeemAt \in Nat
    BY ControllerAssumption DEF WindowIds
  <2> QED BY <2>1 DEF WindowTarget, Max2
<1>3. Strategy[w] \in {"linear_to_reset", "ceiling_only"}
  BY ControllerAssumption DEF WindowIds
<1>4. reason \in {"target_reached", "reset_due", "below_ceiling", "paced_to_reset",
                  "no_observed_burn", "bootstrap_burn_rate", "learning_burn_rate"}
  <2> DEFINE atTarget == Reached(r) \/ r.used >= WindowTarget(w, banked)
             usable == UsableSample(r, sample)
             burned == r.used > sample.used /\ r.elapsed > 0
  <2> HIDE DEF atTarget, usable, burned
  <2> QED BY <1>1, <1>3 DEF WindowReason, atTarget, usable, burned
<1>5. ASSUME reason = "paced_to_reset"
      PROVE  paced \in Int
  <2>1. r.remaining > 0 /\ r.used > sample.used
    <3> DEFINE atTarget == Reached(r) \/ r.used >= WindowTarget(w, banked)
               usable == UsableSample(r, sample)
    <3> HIDE DEF atTarget, usable
    <3> QED BY <1>1, <1>3, <1>5 DEF WindowReason, atTarget, usable
  <2>2. r.remaining * (r.used - sample.used) \in Int /\ r.remaining * (r.used - sample.used) > 0
    BY <1>1, <2>1, ProductPositive
  <2>3. (WindowTarget(w, banked) - r.used) * r.elapsed * sample.workers \in Int
    BY <1>1, <1>2
  <2> QED BY <2>2, <2>3, CeilDivInt DEF PacedWorkers
<1>6. Bootstrap \in Nat
  BY ControllerAssumption
<1> HIDE DEF reason, paced
<1>7. \E raw \in Int : WindowDesired(w, r, sample, current, banked, fleet)
                         = Clamp(raw, fleet.min_workers, fleet.max_workers)
  BY <1>4, <1>5, <1>6, FleetFields DEF WindowDesired, reason, paced
<1> QED BY <1>7, ClampInt, FleetFields

LEMMA WindowWants ==
  ASSUME NEW snap, Usable(snap), NEW prior \in AccountStates, NEW current \in Nat,
         NEW fleet \in Fleets
  PROVE  \A w \in EnabledWindows(snap) :
           WindowDesired(w, snap.windows[w], prior.sample[w], current,
                         BankedAvailable(snap), fleet) \in Nat
<1>1. BankedAvailable(snap) \in BOOLEAN
  BY DEF BankedAvailable, Usable
<1>2. ASSUME NEW w \in EnabledWindows(snap)
      PROVE  /\ w \in WindowIds /\ snap.windows[w] \in ReadingType
             /\ prior.sample[w] \in SampleType
  BY DEF EnabledWindows, Usable, AccountStates, WindowIds
<1>3. fleet.min_workers .. fleet.max_workers \subseteq Nat
  BY FleetFields
<1> HIDE DEF BankedAvailable
<1> QED BY <1>1, <1>2, <1>3, WindowDesiredInRange

(* The governing window is the fullest reported weekly one.                *)
LEMMA GoverningIsWeekly ==
  ASSUME NEW snap, Usable(snap), BankedApplies(snap)
  PROVE  GoverningWindow(snap.windows) \in DOMAIN snap.windows \cap Weekly
<1> DEFINE S == DOMAIN snap.windows \cap Weekly
           Room == {Full - snap.windows[w].used : w \in S}
<1>1. S # {}
  BY DEF BankedApplies
<1>2. \A w \in S : snap.windows[w].used \in 0 .. Full
  BY DEF Usable, ReadingType
<1>3. Room \in SUBSET Nat /\ Room # {}
  <2>1. Full \in Nat
    BY ControllerAssumption
  <2>2. \A w \in S : Full - snap.windows[w].used \in Nat
    BY <1>2, <2>1
  <2> HIDE DEF S
  <2> QED BY <1>1, <2>2
<1>4. PICK w \in S : \A v \in S : Full - snap.windows[w].used <= Full - snap.windows[v].used
  <2>1. PICK n \in Room : \A m \in Room : n <= m
    BY <1>3, LeastNatural
  <2>2. PICK w \in S : n = Full - snap.windows[w].used
    BY <2>1
  <2> QED BY <2>1, <2>2
<1>5. \A v \in S : snap.windows[v].used <= snap.windows[w].used
  BY <1>2, <1>4, ControllerAssumption
<1> QED BY <1>4, <1>5 DEF GoverningWindow

LEMMA ManualBoolean ==
  ASSUME NEW r, NEW latch
  PROVE  ManualRedemption(r, latch) \in BOOLEAN
BY DEF ManualRedemption, Reached

LEMMA BankedDesiredNat ==
  ASSUME NEW r \in ReadingType, NEW latch, NEW burn \in BurnType, NEW capacity \in Nat,
         NEW current \in Nat, NEW fleet \in Fleets
  PROVE  /\ BankedDesired(r, latch, burn, capacity, current, fleet) \in Nat
         /\ ManualRedemption(r, latch) =>
              BankedDesired(r, latch, burn, capacity, current, fleet) = fleet.min_workers
<1> DEFINE manual == ManualRedemption(r, latch)
           split == Clamp(burn.workers, Min2(fleet.min_workers, capacity), capacity)
           kept == Min2(IF current = 0 THEN Bootstrap ELSE current, capacity)
           desired == BankedDesired(r, latch, burn, capacity, current, fleet)
<1>1. manual \in BOOLEAN
  BY ManualBoolean
<1>2. fleet.min_workers \in Nat /\ burn.workers \in Nat /\ Bootstrap \in Nat
  BY FleetFields, ControllerAssumption DEF BurnType
<1>3. split \in Nat /\ kept \in Nat
  BY <1>2 DEF Clamp, Min2, Max2
<1>4. FullSpeed \in BOOLEAN /\ burn.missed \in BOOLEAN /\ burn.kind \in {"none", "unsplit", "split"}
  BY ControllerAssumption DEF BurnType
<1> HIDE DEF manual, split, kept
<1>5. desired \in {fleet.min_workers, current, capacity, split, kept}
  BY <1>1, <1>4 DEF BankedDesired, manual, split, kept
<1>6. manual => desired = fleet.min_workers
  BY <1>1 DEF BankedDesired, manual
<1> QED BY <1>2, <1>3, <1>5, <1>6 DEF manual

LEMMA BankedPlanNat ==
  ASSUME NEW snap, Usable(snap), BankedApplies(snap), NEW prior \in AccountStates,
         NEW current \in Nat, NEW fleet \in Fleets
  PROVE  LET plan == BankedPlan(snap, prior.latch, current, fleet)
             w == GoverningWindow(snap.windows)
         IN  /\ plan.manual = ManualRedemption(snap.windows[w], prior.latch[w])
             /\ plan.desired \in Nat /\ plan.capacity \in Nat
             /\ plan.manual => plan.desired = fleet.min_workers
<1> DEFINE w == GoverningWindow(snap.windows)
           capacity == Min2(IF snap.backlog = Unbounded THEN current ELSE snap.backlog,
                            fleet.max_workers)
<1>1. capacity \in Nat
  BY FleetFields DEF Usable, Min2
<1>2. snap.windows[w] \in ReadingType /\ snap.burn \in BurnType
  BY GoverningIsWeekly DEF Usable
<1> HIDE DEF w, capacity
<1>3. LET desired == BankedDesired(snap.windows[w], prior.latch[w], snap.burn,
                                   capacity, current, fleet)
      IN  /\ desired \in Nat
          /\ ManualRedemption(snap.windows[w], prior.latch[w]) => desired = fleet.min_workers
  BY <1>1, <1>2, BankedDesiredNat
<1> QED BY <1>1, <1>3 DEF BankedPlan, w, capacity

(* A fresh decision is a natural request, bounded by work, stepped, capped *)
(* by a banked plan's capacity and by work once more; held for redemption, *)
(* the request is the minimum.                                             *)
LEMMA FreshDesiredShape ==
  ASSUME NEW snap, Usable(snap), NEW prior \in AccountStates,
         NEW current \in Nat, NEW fleet \in Fleets
  PROVE  LET plan == BankedPlan(snap, prior.latch, current, fleet)
             stepped(raw) == ApplyStepLimits(WorkCap(raw, snap), current, fleet)
             capped(raw) == IF BankedApplies(snap)
                            THEN BankedCap(stepped(raw), current, plan.capacity)
                            ELSE stepped(raw)
         IN  \E raw \in Nat :
               /\ FreshDesired(snap, prior, current, fleet) =
                    IF snap.backlog = Unbounded THEN capped(raw)
                    ELSE Min2(capped(raw), Max2(current, snap.backlog))
               /\ BankedApplies(snap) /\ plan.manual => raw = fleet.min_workers
<1> DEFINE banked == BankedAvailable(snap)
           want == [w \in EnabledWindows(snap) |->
                      WindowDesired(w, snap.windows[w], prior.sample[w], current, banked, fleet)]
           reason == [w \in EnabledWindows(snap) |->
                      WindowReason(w, snap.windows[w], prior.sample[w], current, banked)]
           short == EnabledWindows(snap) \ Weekly
           ordinary == MinOver({want[w] : w \in DOMAIN want})
           plan == BankedPlan(snap, prior.latch, current, fleet)
           anyPlan == IF BankedApplies(snap) THEN plan ELSE NoBanked
           guards == {w \in DOMAIN want :
                        \/ reason[w] = "reset_due"
                        \/ w \in short /\ reason[w] \in {"target_reached", "paced_to_reset"}}
           guarded == MinOver({anyPlan.desired} \cup {want[w] : w \in guards})
           raw == IF ~BankedApplies(snap) THEN ordinary
                  ELSE IF anyPlan.manual THEN anyPlan.desired
                  ELSE IF FullSpeed THEN guarded
                  ELSE IF \E w \in short : reason[w] = "target_reached" THEN ordinary
                  ELSE Max2(ordinary, anyPlan.desired)
           stepped == ApplyStepLimits(WorkCap(raw, snap), current, fleet)
           capped == IF BankedApplies(snap) THEN BankedCap(stepped, current, anyPlan.capacity)
                     ELSE stepped
<1>1. \A w \in DOMAIN want : want[w] \in Nat
  BY WindowWants
<1>2. DOMAIN want # {}
  BY DEF EnabledWindows, Usable, WindowIds
<1>3. ordinary \in Nat
  <2> HIDE DEF want
  <2>1. {want[w] : w \in DOMAIN want} \in SUBSET Nat /\ {want[w] : w \in DOMAIN want} # {}
    BY <1>1, <1>2
  <2> QED BY <2>1, MinOverLeast
<1>4. BankedApplies(snap) =>
        /\ anyPlan = plan /\ plan.desired \in Nat
        /\ plan.manual => plan.desired = fleet.min_workers
  BY BankedPlanNat
<1>5. BankedApplies(snap) => guarded \in Nat
  <2> HIDE DEF want, reason, anyPlan
  <2>1. BankedApplies(snap) =>
          {anyPlan.desired} \cup {want[w] : w \in guards} \in SUBSET Nat
    BY <1>1, <1>4
  <2> QED BY <2>1, MinOverLeast
<1>6. FreshDesired(snap, prior, current, fleet) =
        IF snap.backlog = Unbounded THEN capped ELSE Min2(capped, Max2(current, snap.backlog))
  BY DEF FreshDesired
<1> HIDE DEF guarded, ordinary, anyPlan, plan, reason, short
<1>7. raw \in Nat
  BY <1>3, <1>4, <1>5 DEF Max2
<1>8. BankedApplies(snap) /\ plan.manual => raw = fleet.min_workers
  BY <1>4
<1> HIDE DEF raw
<1> QED BY <1>4, <1>6, <1>7, <1>8 DEF plan

(* What a decision promises, as a relation between the snapshot, the       *)
(* recorded latches, the count it started from and the target.             *)
ShrinkIsStepped == FullSpeed \/ ~BankedEnabled

Held(snap, prior) ==
  /\ ~snap.stale
  /\ BankedApplies(snap)
  /\ LET w == GoverningWindow(snap.windows)
     IN  ManualRedemption(snap.windows[w], prior.latch[w])

Promises(snap, prior, current, desired, fleet) ==
  /\ desired \in Nat
  /\ snap.stale => desired <= current
  /\ ~snap.stale /\ snap.backlog # Unbounded => desired <= current \/ desired <= snap.backlog
  /\ ShrinkIsStepped => desired >= SaturatingSub(current, fleet.max_scale_down_per_cycle)
  /\ Held(snap, prior) /\ fleet.max_scale_down_per_cycle > 0 =>
       desired <= Max2(current - 1, fleet.min_workers)

LEMMA StalePromises ==
  ASSUME NEW snap, snap.stale, NEW prior, NEW fleet \in Fleets,
         NEW current \in fleet.min_workers .. fleet.max_workers
  PROVE  Promises(snap, prior, current, StaleDesired(current, fleet), fleet)
<1> DEFINE raw == IF StaleBehavior = "hold" THEN current ELSE fleet.min_workers
           stepped == ApplyStepLimits(raw, current, fleet)
<1>1. /\ raw \in Nat /\ current \in Nat /\ current <= fleet.max_workers
      /\ fleet.max_scale_down_per_cycle \in Nat
  BY FleetFields
<1> HIDE DEF raw
<1>2. stepped \in Nat /\ stepped >= SaturatingSub(current, fleet.max_scale_down_per_cycle)
  BY <1>1, StepLimitsHold, StepLimitsNat
<1>3. StaleDesired(current, fleet) = Min2(stepped, current)
  BY DEF StaleDesired, raw
<1> HIDE DEF stepped
<1> QED BY <1>1, <1>2, <1>3 DEF Promises, Held, Min2, SaturatingSub

LEMMA FreshPromises ==
  ASSUME NEW snap, Usable(snap), ~snap.stale, NEW prior \in AccountStates, NEW fleet \in Fleets,
         NEW current \in fleet.min_workers .. fleet.max_workers
  PROVE  Promises(snap, prior, current, FreshDesired(snap, prior, current, fleet), fleet)
<1> DEFINE low == fleet.min_workers
           down == fleet.max_scale_down_per_cycle
           plan == BankedPlan(snap, prior.latch, current, fleet)
           fresh == FreshDesired(snap, prior, current, fleet)
           held == Held(snap, prior)
           applies == BankedApplies(snap)
<1>1. current \in Nat /\ current >= low /\ current <= fleet.max_workers /\ low \in Nat /\ down \in Nat
  BY FleetFields
<1>2. applies => plan.capacity \in Nat /\ (held => plan.manual)
  BY <1>1, BankedPlanNat DEF Held
<1>3. PICK raw \in Nat :
        LET stepped == ApplyStepLimits(WorkCap(raw, snap), current, fleet)
            capped == IF BankedApplies(snap) THEN BankedCap(stepped, current, plan.capacity)
                      ELSE stepped
        IN  /\ fresh = IF snap.backlog = Unbounded THEN capped
                       ELSE Min2(capped, Max2(current, snap.backlog))
            /\ BankedApplies(snap) /\ plan.manual => raw = fleet.min_workers
  BY <1>1, FreshDesiredShape
<1> DEFINE bounded == WorkCap(raw, snap)
           stepped == ApplyStepLimits(bounded, current, fleet)
           capped == IF applies THEN BankedCap(stepped, current, plan.capacity) ELSE stepped
<1>4. snap.backlog \in Nat \/ snap.backlog = Unbounded
  BY DEF Usable
<1>5. bounded \in Nat /\ bounded <= raw
  BY <1>4 DEF WorkCap, Min2, Unbounded
<1>6. fresh = IF snap.backlog = Unbounded THEN capped ELSE Min2(capped, Max2(current, snap.backlog))
  BY <1>3
<1>7. held => bounded <= low
  BY <1>1, <1>2, <1>3, <1>5 DEF Held
<1>8. held => applies
  BY DEF Held
<1> HIDE DEF bounded, plan, fresh, held, applies
<1>9. stepped \in Nat /\ stepped >= SaturatingSub(current, down)
  BY <1>1, <1>5, StepLimitsHold, StepLimitsNat
<1>10. held /\ down > 0 => stepped <= Max2(current - 1, low)
  BY <1>1, <1>5, <1>7, FleetFields DEF ApplyStepLimits, Clamp, Min2, Max2, SaturatingSub
<1> HIDE DEF stepped
<1>11. capped \in Nat /\ capped <= stepped
  BY <1>1, <1>2, <1>9, ControllerAssumption DEF BankedCap, Min2, Max2
<1>12. ShrinkIsStepped => capped >= SaturatingSub(current, down)
  <2>1. CASE ~applies
    BY <1>9, <2>1
  <2>2. CASE applies /\ ShrinkIsStepped
    <3>1. FullSpeed
      BY <2>2 DEF applies, ShrinkIsStepped, BankedApplies, BankedAvailable
    <3> QED BY <1>1, <1>2, <1>9, <2>2, <3>1 DEF BankedCap, Min2, Max2, SaturatingSub
  <2> QED BY <2>1, <2>2
<1> HIDE DEF capped
<1>13. fresh \in Nat /\ fresh <= capped
  BY <1>1, <1>4, <1>6, <1>11 DEF Min2, Max2
<1>14. snap.backlog # Unbounded => fresh <= current \/ fresh <= snap.backlog
  BY <1>1, <1>4, <1>6, <1>11 DEF Min2, Max2
<1>15. ShrinkIsStepped => fresh >= SaturatingSub(current, down)
  BY <1>1, <1>4, <1>6, <1>11, <1>12 DEF Min2, Max2, SaturatingSub
<1>16. held /\ down > 0 => fresh <= Max2(current - 1, low)
  BY <1>1, <1>9, <1>10, <1>11, <1>13 DEF Max2
<1> QED BY <1>13, <1>14, <1>15, <1>16 DEF Promises, held, fresh

(* The same for a pool: its workers and the roster's are sized together.   *)
LEMMA PoolPromises ==
  ASSUME NEW snap, Usable(snap), NEW prior \in AccountStates, NEW fleet \in Fleets,
         NEW owned \in fleet.min_workers .. fleet.max_workers, NEW others \in Nat
  PROVE  LET desired == EvaluatePool(snap, prior, owned, others, fleet)
         IN  /\ desired \in Nat
             /\ snap.stale => desired <= owned
             /\ ~snap.stale /\ snap.backlog # Unbounded =>
                  desired <= owned \/ desired + others <= snap.backlog
             /\ ShrinkIsStepped => desired >= SaturatingSub(owned, fleet.max_scale_down_per_cycle)
             /\ Held(snap, prior) /\ fleet.max_scale_down_per_cycle > 0 =>
                  desired <= Max2(owned - 1, fleet.min_workers)
<1> DEFINE pool == PoolFleet(fleet, others)
           current == owned + others
           whole == Evaluate(snap, prior, current, pool)
           desired == EvaluatePool(snap, prior, owned, others, fleet)
<1>1. /\ fleet.min_workers \in Nat /\ fleet.max_workers \in Nat
      /\ fleet.max_scale_down_per_cycle \in Nat /\ owned \in Nat
      /\ owned >= fleet.min_workers /\ owned <= fleet.max_workers
  BY FleetFields
<1>2. /\ pool \in Fleets /\ pool.min_workers = fleet.min_workers + others
      /\ pool.max_workers = fleet.max_workers + others
      /\ pool.max_scale_down_per_cycle = fleet.max_scale_down_per_cycle
  <2> DEFINE Bounds == [min_workers : Nat, max_workers : Nat,
                        max_scale_up_per_cycle : Nat, max_scale_down_per_cycle : Nat]
             raised == [fleet EXCEPT !.min_workers = fleet.min_workers + others]
  <2>0. fleet \in Bounds
    BY DEF Fleets
  <2>1. /\ pool \in Bounds
        /\ pool.max_scale_down_per_cycle = fleet.max_scale_down_per_cycle
    <3>1. raised \in Bounds /\ raised.max_workers = fleet.max_workers
      BY <1>1, <2>0
    <3>2. fleet.max_workers + others \in Nat
      BY <1>1
    <3>3. pool = [raised EXCEPT !.max_workers = raised.max_workers + others]
      BY DEF PoolFleet
    <3>4. raised.max_scale_down_per_cycle = fleet.max_scale_down_per_cycle
      BY <2>0
    <3> HIDE DEF raised, pool
    <3> QED BY <3>1, <3>2, <3>3, <3>4
  <2>2. pool.min_workers = fleet.min_workers + others
    BY <1>1 DEF PoolFleet, Fleets
  <2>3. pool.max_workers = fleet.max_workers + others
    BY <1>1 DEF PoolFleet, Fleets
  <2>4. fleet.min_workers <= fleet.max_workers
    BY FleetFields
  <2> QED BY <1>1, <2>1, <2>2, <2>3, <2>4 DEF Fleets
<1>3. current \in pool.min_workers .. pool.max_workers /\ current \in Nat
  BY <1>1, <1>2
<1> HIDE DEF pool
<1>4. Promises(snap, prior, current, whole, pool)
  <2> HIDE DEF current
  <2>1. CASE snap.stale
    BY <1>2, <1>3, <2>1, StalePromises DEF Evaluate
  <2>2. CASE ~snap.stale
    BY <1>2, <1>3, <2>2, FreshPromises DEF Evaluate
  <2> QED BY <2>1, <2>2
<1>5. desired = SaturatingSub(whole, others)
  BY DEF EvaluatePool, pool
<1> HIDE DEF whole, desired
<1>6. whole \in Nat
  BY <1>4 DEF Promises
<1>7. desired \in Nat /\ (desired > 0 => desired + others = whole)
  BY <1>5, <1>6 DEF SaturatingSub
<1>8. snap.stale => desired <= owned
  BY <1>1, <1>4, <1>7 DEF Promises
<1>9. ~snap.stale /\ snap.backlog # Unbounded =>
        desired <= owned \/ desired + others <= snap.backlog
  BY <1>1, <1>4, <1>7 DEF Promises, Usable
<1>10. ShrinkIsStepped => desired >= SaturatingSub(owned, fleet.max_scale_down_per_cycle)
  BY <1>1, <1>2, <1>4, <1>5, <1>6 DEF Promises, SaturatingSub
<1>11. Held(snap, prior) /\ fleet.max_scale_down_per_cycle > 0 =>
         desired <= Max2(owned - 1, fleet.min_workers)
  BY <1>1, <1>2, <1>4, <1>6, <1>7 DEF Promises, Max2
<1> QED BY <1>7, <1>8, <1>9, <1>10, <1>11 DEF desired

-----------------------------------------------------------------------------
(* The brake.                                                              *)

LEMMA NextBrakeType ==
  ASSUME NEW brake \in BrakeType, NEW snap, Usable(snap)
  PROVE  NextBrake(brake, snap) \in BrakeType
<1> DEFINE fraction == snap.fraction
<1>1. brake.mode \in BrakeModes /\ brake.quiet \in Nat /\ brake.age \in Nat \cup {Never}
  BY DEF BrakeType
<1>2. BrakeWithoutSample(brake) \in BrakeType
  BY DEF BrakeWithoutSample, NormalBrake, BrakeType, BrakeModes
<1>3. BrakeOnSample(brake, fraction) \in BrakeType
  <2> DEFINE escalates == brake.mode = "hold" /\ fraction > StepDownAbove
             calm == brake.mode # "normal" /\ ~escalates /\ fraction < RecoverBelow
             recovers == calm /\ brake.quiet + 1 >= QuietCycles
  <2> HIDE DEF escalates, calm, recovers
  <2>1. brake.quiet + 1 \in Nat
    BY <1>1
  <2> QED BY <1>1, <2>1 DEF BrakeOnSample, BrakeType, BrakeModes, escalates, calm, recovers
<1> QED BY <1>2, <1>3 DEF NextBrake

LEMMA OlderType ==
  ASSUME NEW brake \in BrakeType
  PROVE  Older(brake) \in BrakeType /\ Older(brake).mode = brake.mode
BY ControllerAssumption DEF Older, BrakeType, Never

(* The brake never raises a target; engaged, it allows no growth, and in   *)
(* step_down no standing still above the minimum.                          *)
LEMMA BrakedBounds ==
  ASSUME NEW brake \in BrakeType, NEW desired \in Nat, NEW current \in Nat, NEW low \in Nat,
         low <= current
  PROVE  LET target == Braked(brake, desired, current, low)
         IN  /\ target \in Nat /\ target <= desired
             /\ brake.mode # "normal" => target <= current
             /\ brake.mode = "step_down" => target < current \/ target <= low
             /\ target = desired \/ target >= SaturatingSub(current, 1)
<1>1. brake.mode \in BrakeModes
  BY DEF BrakeType
<1>2. CASE brake.mode = "normal"
  BY <1>2 DEF Braked
<1>3. CASE brake.mode = "hold"
  BY <1>3 DEF Braked, Min2, Max2, SaturatingSub
<1>4. CASE brake.mode = "step_down"
  BY <1>4 DEF Braked, Min2, Max2, SaturatingSub
<1> QED BY <1>1, <1>2, <1>3, <1>4 DEF BrakeModes

-----------------------------------------------------------------------------
(* The cycle: types, and what the decision being carried out satisfies.    *)

TypeInv ==
  /\ running \in Nat
  /\ unowned \in Nat
  /\ gen \in [WindowIds -> Nat]
  /\ mem \in AccountStates
  /\ disk \in AccountStates
  /\ pc \in {"idle", "decided", "save"}

(* Without backpressure nothing ever engages the brake.                    *)
BrakeInv ==
  ~BackpressureEnabled => mem.brake.mode = "normal" /\ disk.brake.mode = "normal"

(* The figures a decided cycle keeps are of generations that have begun.   *)
FiguresInv ==
  pc = "decided" =>
    /\ cycle.desired \in Nat
    /\ cycle.current \in Nat
    /\ cycle.unowned \in Nat
    /\ ~cycle.snap.stale =>
         /\ DOMAIN cycle.snap.windows \in SUBSET WindowIds
         /\ \A w \in DOMAIN cycle.snap.windows :
              /\ cycle.snap.windows[w].used \in Nat
              /\ cycle.snap.windows[w].gen \in Nat
              /\ cycle.snap.windows[w].gen <= gen[w]

CycleInv == TypeInv /\ BrakeInv /\ FiguresInv

LEMMA SnapshotUsable ==
  ASSUME TypeInv, NEW snap \in Snapshots
  PROVE  /\ Usable(snap)
         /\ DOMAIN snap.windows \in WindowSets
         /\ \A w \in DOMAIN snap.windows : snap.windows[w].gen = gen[w]
<1>1. PICK ids \in WindowSets :
        snap \in [stale : BOOLEAN,
                  windows : {f \in [ids -> UNION {Readings(w) : w \in ids}] :
                               \A w \in ids : f[w].gen = gen[w]},
                  backlog : Backlogs, credits : CreditCounts, burn : Burns,
                  fraction : Fractions]
  BY DEF Snapshots
<1>2. ids \in SUBSET WindowIds /\ ids # {}
  BY CycleAssumption
<1>3. \A w \in ids : Readings(w) \subseteq ReadingType
  <2>1. UsedLevels \subseteq 0 .. Full /\ Remainings \subseteq Nat /\ Elapsed \subseteq Nat
    BY CycleAssumption
  <2>2. \A w \in ids : gen[w] \in Nat
    BY <1>2 DEF TypeInv
  <2> QED BY <2>1, <2>2 DEF Readings, ReadingType
<1>4. /\ snap.windows \in [ids -> ReadingType]
      /\ \A w \in ids : snap.windows[w].gen = gen[w]
  <2> HIDE DEF Readings
  <2> QED BY <1>1, <1>3 DEF ReadingType
<1>5. /\ snap.stale \in BOOLEAN /\ snap.backlog \in Backlogs /\ snap.credits \in CreditCounts
      /\ snap.burn \in Burns /\ snap.fraction \in Fractions
  BY <1>1
<1>6. /\ snap.backlog \in Nat \cup {Unbounded} /\ snap.credits \in Nat
      /\ snap.burn \in BurnType /\ snap.fraction \in Nat \cup {NoSignal}
  BY <1>5, CycleAssumption DEF BurnType
<1> QED BY <1>2, <1>4, <1>5, <1>6 DEF Usable

LEMMA ObservedInRange ==
  ASSUME TypeInv
  PROVE  Observed \in Fleet.min_workers .. Fleet.max_workers /\ Observed \in Nat
<1>1. Fleet \in Fleets /\ running \in Nat
  BY CycleAssumption DEF TypeInv
<1>2. /\ Fleet.min_workers \in Nat /\ Fleet.max_workers \in Nat
      /\ Fleet.min_workers <= Fleet.max_workers
  BY <1>1, FleetFields
<1>3. Observed \in Fleet.min_workers .. Fleet.max_workers
  BY <1>1, <1>2, ClampRange DEF Observed
<1> QED BY <1>2, <1>3

(* What Decide leaves: the cycle it begins and the brake it stores.        *)
LEMMA DecideShape ==
  ASSUME CycleInv, Decide
  PROVE  \E snap \in Snapshots, brake \in BrakeType, pooled \in Nat :
           /\ pooled = EvaluatePool(snap, mem, Observed, unowned, Fleet)
           /\ mem' = [mem EXCEPT !.brake = brake]
           /\ ~BackpressureEnabled => brake.mode = "normal"
           /\ cycle'.snap = Kept(snap) /\ cycle'.current = Observed /\ cycle'.unowned = unowned
           /\ cycle'.desired \in Nat /\ cycle'.desired <= pooled
           /\ brake.mode # "normal" => cycle'.desired <= Observed
           /\ brake.mode = "step_down" =>
                cycle'.desired < Observed \/ cycle'.desired <= Fleet.min_workers
           /\ \/ cycle'.desired = pooled
              \/ BackpressureEnabled /\ cycle'.desired >= SaturatingSub(Observed, 1)
<1>1. PICK snap \in Snapshots :
        LET brake == IF BackpressureEnabled THEN NextBrake(mem.brake, snap) ELSE mem.brake
            pooled == EvaluatePool(snap, mem, Observed, unowned, Fleet)
        IN  /\ mem' = [mem EXCEPT !.brake = brake]
            /\ cycle' = [snap |-> Kept(snap), current |-> Observed, unowned |-> unowned,
                         desired |-> IF BackpressureEnabled
                                     THEN Braked(brake, pooled, Observed, Fleet.min_workers)
                                     ELSE pooled]
  BY DEF Decide
<1> DEFINE brake == IF BackpressureEnabled THEN NextBrake(mem.brake, snap) ELSE mem.brake
           pooled == EvaluatePool(snap, mem, Observed, unowned, Fleet)
           braked == Braked(brake, pooled, Observed, Fleet.min_workers)
<1>2. Usable(snap) /\ mem \in AccountStates /\ mem.brake \in BrakeType /\ unowned \in Nat
  BY SnapshotUsable DEF CycleInv, TypeInv, AccountStates
<1>3. brake \in BrakeType
  BY <1>2, NextBrakeType
<1>4. Fleet \in Fleets /\ Observed \in Fleet.min_workers .. Fleet.max_workers
  BY CycleAssumption, ObservedInRange DEF CycleInv
<1>5. pooled \in Nat
  BY <1>2, <1>4, PoolPromises
<1>6. ~BackpressureEnabled => brake.mode = "normal"
  BY DEF CycleInv, BrakeInv
<1>7. /\ Fleet.min_workers \in Nat /\ Observed \in Nat /\ Fleet.min_workers <= Observed
  BY <1>4, FleetFields
<1>8. /\ mem' = [mem EXCEPT !.brake = brake]
      /\ cycle' = [snap |-> Kept(snap), current |-> Observed, unowned |-> unowned,
                   desired |-> IF BackpressureEnabled THEN braked ELSE pooled]
  BY <1>1
<1> HIDE DEF brake, pooled
<1>9. /\ braked \in Nat /\ braked <= pooled
      /\ brake.mode # "normal" => braked <= Observed
      /\ brake.mode = "step_down" => braked < Observed \/ braked <= Fleet.min_workers
      /\ braked = pooled \/ braked >= SaturatingSub(Observed, 1)
  BY <1>3, <1>5, <1>7, BrakedBounds
<1> HIDE DEF braked
<1>10. /\ cycle'.snap = Kept(snap) /\ cycle'.current = Observed /\ cycle'.unowned = unowned
       /\ cycle'.desired = IF BackpressureEnabled THEN braked ELSE pooled
  BY <1>8
<1>11. BackpressureEnabled \in BOOLEAN
  BY CycleAssumption
<1>12. /\ cycle'.desired \in Nat /\ cycle'.desired <= pooled
       /\ brake.mode # "normal" => cycle'.desired <= Observed
       /\ brake.mode = "step_down" =>
            cycle'.desired < Observed \/ cycle'.desired <= Fleet.min_workers
       /\ \/ cycle'.desired = pooled
          \/ BackpressureEnabled /\ cycle'.desired >= SaturatingSub(Observed, 1)
  BY <1>5, <1>6, <1>9, <1>10, <1>11
<1> WITNESS snap \in Snapshots, brake \in BrakeType, pooled \in Nat
<1> QED BY <1>6, <1>8, <1>10, <1>12 DEF pooled

(* Only Decide begins a cycle, and nothing but time touches it.            *)
LEMMA CycleKept ==
  ASSUME CycleInv, [Next]_vars, ~Decide, pc' = "decided"
  PROVE  /\ pc = "decided" /\ cycle' = cycle /\ mem'.brake.mode = mem.brake.mode
         /\ mem'.latch = mem.latch /\ disk'.latch = disk.latch /\ recorded' = recorded
<1> USE DEF environmentVars
<1>1. CASE TimePasses
  <2>1. mem.brake \in BrakeType /\ mem \in AccountStates /\ disk \in AccountStates
    BY DEF CycleInv, TypeInv, AccountStates
  <2>2. Older(mem.brake).mode = mem.brake.mode
    BY <2>1, OlderType
  <2> QED BY <1>1, <2>1, <2>2 DEF TimePasses, AccountStates
<1>2. CASE ~TimePasses
  BY <1>2 DEF Next, vars, Decide, Actuate, Save, ObservationFails, ActuationFails, Crash,
              WorkerExits, RosterChanges, WindowResets
<1> QED BY <1>1, <1>2

LEMMA RecordedTypes ==
  ASSUME FiguresInv, TypeInv, pc = "decided", ~cycle.snap.stale, NEW workers \in Nat
  PROVE  /\ RecordSamples(cycle.snap, workers) \in [WindowIds -> SampleType]
         /\ RecordLatches(mem.latch, cycle.snap) \in [WindowIds -> LatchType]
<1>1. mem.latch \in [WindowIds -> LatchType]
  BY DEF TypeInv, AccountStates
<1>2. ASSUME NEW w \in DOMAIN cycle.snap.windows
      PROVE  cycle.snap.windows[w].used \in Nat /\ cycle.snap.windows[w].gen \in Nat
  BY DEF FiguresInv
<1>3. RecordSamples(cycle.snap, workers) \in [WindowIds -> SampleType]
  BY <1>2 DEF RecordSamples, SampleType, NoSample, WindowIds
<1>4. RecordLatches(mem.latch, cycle.snap) \in [WindowIds -> LatchType]
  <2>1. ASSUME NEW w \in WindowIds, w \in DOMAIN cycle.snap.windows
        PROVE  (IF mem.latch[w].gen = cycle.snap.windows[w].gen
                THEN Max2(mem.latch[w].peak, cycle.snap.windows[w].used)
                ELSE cycle.snap.windows[w].used) \in Nat
    BY <1>1, <1>2, <2>1 DEF LatchType, Max2
  <2> QED BY <1>2, <2>1 DEF RecordLatches, LatchType, NoLatch, WindowIds
<1> QED BY <1>3, <1>4

LEMMA CycleInvInit == Init => CycleInv
<1> SUFFICES ASSUME Init PROVE CycleInv
  OBVIOUS
<1>1. EmptyState \in AccountStates /\ EmptyState.brake.mode = "normal"
  BY DEF EmptyState, AccountStates, SampleType, LatchType, BrakeType, BrakeModes, NoSample,
         NoLatch, NormalBrake
<1>2. running \in Nat /\ unowned \in Nat
  BY CycleAssumption, FleetFields DEF Init
<1> QED BY <1>1, <1>2 DEF Init, CycleInv, TypeInv, BrakeInv, FiguresInv

LEMMA CycleInvNext == CycleInv /\ [Next]_vars => CycleInv'
<1> SUFFICES ASSUME CycleInv, [Next]_vars PROVE CycleInv'
  OBVIOUS
<1> USE DEF environmentVars
<1>0. mem.brake \in BrakeType /\ disk.brake \in BrakeType
  BY DEF CycleInv, TypeInv, AccountStates
<1>1. CASE Decide
  <2>1. PICK snap \in Snapshots, brake \in BrakeType, pooled \in Nat :
          /\ mem' = [mem EXCEPT !.brake = brake]
          /\ ~BackpressureEnabled => brake.mode = "normal"
          /\ cycle'.snap = Kept(snap) /\ cycle'.current = Observed /\ cycle'.unowned = unowned
          /\ cycle'.desired \in Nat
    BY <1>1, DecideShape
  <2>2. UNCHANGED <<running, unowned, gen, disk>> /\ pc' = "decided"
    BY <1>1 DEF Decide
  <2>3. TypeInv'
    BY <2>1, <2>2 DEF CycleInv, TypeInv, AccountStates
  <2>4. BrakeInv'
    BY <2>1, <2>2 DEF CycleInv, TypeInv, AccountStates, BrakeInv
  <2>5. ~Kept(snap).stale =>
          /\ DOMAIN Kept(snap).windows \in SUBSET WindowIds
          /\ \A w \in DOMAIN Kept(snap).windows :
               /\ Kept(snap).windows[w].used \in Nat
               /\ Kept(snap).windows[w].gen \in Nat
               /\ Kept(snap).windows[w].gen <= gen[w]
    <3>1. Usable(snap) /\ \A w \in DOMAIN snap.windows : snap.windows[w].gen = gen[w]
      BY SnapshotUsable DEF CycleInv
    <3>2. \A w \in DOMAIN snap.windows :
            w \in WindowIds /\ snap.windows[w].used \in Nat /\ gen[w] \in Nat
      BY <3>1, ControllerAssumption DEF CycleInv, TypeInv, Usable, ReadingType
    <3> QED BY <3>1, <3>2 DEF Kept, NoSnapshot, Usable
  <2>6. FiguresInv'
    BY <2>1, <2>2, <2>5, ObservedInRange DEF CycleInv, TypeInv, FiguresInv
  <2> QED BY <2>3, <2>4, <2>6 DEF CycleInv
<1>2. CASE Actuate
  <2> DEFINE workers == (IF cycle.desired # cycle.current THEN cycle.desired ELSE cycle.current)
                          + cycle.unowned
             samples == RecordSamples(cycle.snap, workers)
             latches == RecordLatches(mem.latch, cycle.snap)
  <2>1. /\ UNCHANGED <<unowned, gen, disk>> /\ pc = "decided" /\ pc' = "save"
        /\ running' = IF cycle.desired # cycle.current THEN cycle.desired ELSE running
        /\ mem' = IF cycle.snap.stale THEN mem
                  ELSE [mem EXCEPT !.sample = samples, !.latch = latches]
    BY <1>2 DEF Actuate, CycleInv, TypeInv, AccountStates
  <2>2. workers \in Nat
    BY <2>1 DEF CycleInv, FiguresInv
  <2>3. ~cycle.snap.stale =>
          samples \in [WindowIds -> SampleType] /\ latches \in [WindowIds -> LatchType]
    BY <2>1, <2>2, RecordedTypes DEF CycleInv
  <2> HIDE DEF samples, latches
  <2>4. mem' \in AccountStates /\ mem'.brake = mem.brake
    BY <2>1, <2>3 DEF CycleInv, TypeInv, AccountStates
  <2>5. running' \in Nat
    BY <2>1 DEF CycleInv, TypeInv, FiguresInv
  <2> QED BY <2>1, <2>4, <2>5 DEF CycleInv, TypeInv, BrakeInv, FiguresInv
<1>3. CASE Save
  BY <1>3 DEF Save, CycleInv, TypeInv, BrakeInv, FiguresInv
<1>4. CASE ObservationFails
  BY <1>4 DEF ObservationFails, CycleInv, TypeInv, BrakeInv, FiguresInv
<1>5. CASE ActuationFails
  <2>1. running' \in Nat
    BY <1>5 DEF ActuationFails, CycleInv, TypeInv, FiguresInv, Min2, Max2
  <2> QED BY <1>5, <2>1 DEF ActuationFails, CycleInv, TypeInv, BrakeInv, FiguresInv
<1>6. CASE Crash
  BY <1>6 DEF Crash, CycleInv, TypeInv, BrakeInv, FiguresInv
<1>7. CASE WorkerExits
  BY <1>7 DEF WorkerExits, CycleInv, TypeInv, BrakeInv, FiguresInv
<1>8. CASE RosterChanges
  <2>1. unowned' \in Nat
    BY <1>8, CycleAssumption DEF RosterChanges
  <2> QED BY <1>8, <2>1 DEF RosterChanges, CycleInv, TypeInv, BrakeInv, FiguresInv
<1>9. ASSUME NEW w \in WindowIds, WindowResets(w) PROVE CycleInv'
  <2>1. gen' \in [WindowIds -> Nat] /\ \A v \in WindowIds : gen[v] <= gen'[v]
    BY <1>9 DEF WindowResets, CycleInv, TypeInv
  <2>2. UNCHANGED <<running, unowned, mem, disk, pc, cycle>>
    BY <1>9 DEF WindowResets
  <2>3. FiguresInv'
    <3> SUFFICES ASSUME pc' = "decided" PROVE FiguresInv'
      BY DEF FiguresInv
    <3>1. \A v \in WindowIds : gen[v] \in Nat /\ gen'[v] \in Nat
      BY <2>1 DEF CycleInv, TypeInv
    <3> QED BY <2>1, <2>2, <3>1 DEF CycleInv, FiguresInv
  <2> QED BY <2>1, <2>2, <2>3 DEF CycleInv, TypeInv, BrakeInv
<1>10. CASE TimePasses
  <2>1. Older(mem.brake) \in BrakeType /\ Older(mem.brake).mode = mem.brake.mode
    BY <1>0, OlderType
  <2>2. Older(disk.brake) \in BrakeType /\ Older(disk.brake).mode = disk.brake.mode
    BY <1>0, OlderType
  <2>3. /\ mem' = [mem EXCEPT !.brake = Older(mem.brake)]
        /\ disk' = [disk EXCEPT !.brake = Older(disk.brake)]
        /\ UNCHANGED <<running, unowned, gen, pc, cycle>>
    BY <1>10 DEF TimePasses
  <2> QED BY <2>1, <2>2, <2>3 DEF CycleInv, TypeInv, AccountStates, BrakeInv, FiguresInv
<1>11. CASE UNCHANGED vars
  BY <1>11 DEF vars, CycleInv, TypeInv, BrakeInv, FiguresInv
<1> QED BY <1>1, <1>2, <1>3, <1>4, <1>5, <1>6, <1>7, <1>8, <1>9, <1>10, <1>11 DEF Next

-----------------------------------------------------------------------------
(* Decisions on old figures, past known work and under pressure.           *)

DecisionInv == StaleNeverGrows /\ NoGrowthBeyondWork /\ BrakeLimits

LEMMA DecisionInvNext == CycleInv /\ DecisionInv /\ [Next]_vars => DecisionInv'
<1> SUFFICES ASSUME CycleInv, DecisionInv, [Next]_vars, pc' = "decided" PROVE DecisionInv'
  BY DEF DecisionInv, StaleNeverGrows, NoGrowthBeyondWork, BrakeLimits
<1>1. CASE ~Decide
  BY <1>1, CycleKept DEF DecisionInv, StaleNeverGrows, NoGrowthBeyondWork, BrakeLimits
<1>2. CASE Decide
  <2>1. PICK snap \in Snapshots, brake \in BrakeType, pooled \in Nat :
          /\ pooled = EvaluatePool(snap, mem, Observed, unowned, Fleet)
          /\ mem' = [mem EXCEPT !.brake = brake]
          /\ cycle'.snap = Kept(snap) /\ cycle'.current = Observed /\ cycle'.unowned = unowned
          /\ cycle'.desired \in Nat /\ cycle'.desired <= pooled
          /\ brake.mode # "normal" => cycle'.desired <= Observed
          /\ brake.mode = "step_down" =>
               cycle'.desired < Observed \/ cycle'.desired <= Fleet.min_workers
    BY <1>2, DecideShape
  <2>2. Usable(snap) /\ mem \in AccountStates /\ unowned \in Nat
    BY SnapshotUsable DEF CycleInv, TypeInv
  <2>3. Fleet \in Fleets /\ Observed \in Fleet.min_workers .. Fleet.max_workers /\ Observed \in Nat
    BY CycleAssumption, ObservedInRange DEF CycleInv
  <2>4. /\ snap.stale => pooled <= Observed
        /\ ~snap.stale /\ snap.backlog # Unbounded =>
             pooled <= Observed \/ pooled + unowned <= snap.backlog
    BY <2>1, <2>2, <2>3, PoolPromises
  <2>5. /\ Kept(snap).stale = snap.stale
        /\ ~snap.stale => Kept(snap).backlog = snap.backlog
    BY <2>2 DEF Kept, NoSnapshot, Usable
  <2>6. snap.backlog \in Nat \/ snap.backlog = Unbounded
    BY <2>2 DEF Usable
  <2>7. mem'.brake = brake
    BY <2>1, <2>2 DEF AccountStates
  <2>8. StaleNeverGrows'
    BY <2>1, <2>3, <2>4, <2>5 DEF StaleNeverGrows
  <2>9. NoGrowthBeyondWork'
    BY <2>1, <2>2, <2>3, <2>4, <2>5, <2>6 DEF NoGrowthBeyondWork
  <2>10. BrakeLimits'
    BY <2>1, <2>7 DEF BrakeLimits
  <2> QED BY <2>8, <2>9, <2>10 DEF DecisionInv
<1> QED BY <1>1, <1>2

(* The invariant of the account's cycle, with every decision it carries    *)
(* out.                                                                    *)
THEOREM CycleInvariant == Spec => [](CycleInv /\ DecisionInv)
<1>1. Init => CycleInv /\ DecisionInv
  BY CycleInvInit DEF Init, DecisionInv, StaleNeverGrows, NoGrowthBeyondWork, BrakeLimits
<1>2. CycleInv /\ DecisionInv /\ [Next]_vars => (CycleInv /\ DecisionInv)'
  BY CycleInvNext, DecisionInvNext
<1> QED BY <1>1, <1>2, PTL DEF Spec

(* controller.rs 290: a decision from a stale snapshot never adds a        *)
(* worker, for any stale behaviour, roster, brake and fleet.               *)
THEOREM StaleHolds == Spec => []StaleNeverGrows
<1>1. CycleInv /\ DecisionInv => StaleNeverGrows
  BY DEF DecisionInv
<1> QED BY <1>1, CycleInvariant, PTL

(* controller.rs 451: the pool never grows past reported work, whatever    *)
(* the windows, a banked plan and the fleet's minimum ask for.             *)
THEOREM WorkBoundsGrowth == Spec => []NoGrowthBeyondWork
<1>1. CycleInv /\ DecisionInv => NoGrowthBeyondWork
  BY DEF DecisionInv
<1> QED BY <1>1, CycleInvariant, PTL

(* apply_backpressure: an engaged brake allows no growth, and in step_down *)
(* no standing still above the minimum, through crashes and restarts.      *)
THEOREM BrakeHolds == Spec => []BrakeLimits
<1>1. CycleInv /\ DecisionInv => BrakeLimits
  BY DEF DecisionInv
<1> QED BY <1>1, CycleInvariant, PTL

-----------------------------------------------------------------------------
(* The size of a downward step.  A paced banked plan caps the target at    *)
(* the known work without stepping, and the brake's step_down lowers it by *)
(* one whatever the configured step is; hence the two hypotheses.          *)

LEMMA ShrinkBoundedNext ==
  ASSUME ShrinkIsStepped, BackpressureEnabled => Fleet.max_scale_down_per_cycle > 0
  PROVE  CycleInv /\ ShrinkBounded /\ [Next]_vars => ShrinkBounded'
<1> SUFFICES ASSUME CycleInv, ShrinkBounded, [Next]_vars, pc' = "decided" PROVE ShrinkBounded'
  BY DEF ShrinkBounded
<1>1. CASE ~Decide
  BY <1>1, CycleKept DEF ShrinkBounded
<1>2. CASE Decide
  <2> DEFINE down == Fleet.max_scale_down_per_cycle
  <2>1. PICK snap \in Snapshots, pooled \in Nat :
          /\ pooled = EvaluatePool(snap, mem, Observed, unowned, Fleet)
          /\ cycle'.current = Observed /\ cycle'.desired \in Nat
          /\ \/ cycle'.desired = pooled
             \/ BackpressureEnabled /\ cycle'.desired >= SaturatingSub(Observed, 1)
    BY <1>2, DecideShape
  <2>2. Usable(snap) /\ mem \in AccountStates /\ unowned \in Nat
    BY SnapshotUsable DEF CycleInv, TypeInv
  <2>3. Fleet \in Fleets /\ Observed \in Fleet.min_workers .. Fleet.max_workers /\ Observed \in Nat
    BY CycleAssumption, ObservedInRange DEF CycleInv
  <2>4. pooled >= SaturatingSub(Observed, down) /\ down \in Nat
    BY <2>1, <2>2, <2>3, PoolPromises, FleetFields
  <2>5. BackpressureEnabled => SaturatingSub(Observed, 1) >= SaturatingSub(Observed, down)
    BY <2>3, <2>4 DEF SaturatingSub
  <2>6. SaturatingSub(Observed, 1) \in Nat /\ SaturatingSub(Observed, down) \in Nat
    BY <2>3, <2>4 DEF SaturatingSub
  <2> QED BY <2>1, <2>4, <2>5, <2>6 DEF ShrinkBounded
<1> QED BY <1>1, <1>2

(* controller.rs 985: a decision is at most one configured step below the  *)
(* observed count, unless a paced banked plan is in force.                 *)
THEOREM ShrinkIsBounded ==
  ASSUME ShrinkIsStepped, BackpressureEnabled => Fleet.max_scale_down_per_cycle > 0
  PROVE  Spec => []ShrinkBounded
<1>1. Init => ShrinkBounded
  BY DEF Init, ShrinkBounded
<1>2. CycleInv /\ ShrinkBounded /\ [Next]_vars => ShrinkBounded'
  BY ShrinkBoundedNext
<1> QED BY <1>1, <1>2, CycleInvariant, PTL DEF Spec

-----------------------------------------------------------------------------
(* Redemption.  A window that a snapshot leaves out is forgotten, latch    *)
(* and all, so the weekly windows have to be reported every time; and a    *)
(* fleet whose downward step is zero cannot drain.                         *)

WeeklyReported == \A ids \in WindowSets : Weekly \subseteq ids

LatchHolds(state, w, g) == state.latch[w].gen = g /\ state.latch[w].peak >= RedeemAt

(* No latch is of a generation yet to come; a recorded redemption of the   *)
(* current generation is latched in memory and on disk; and a decided      *)
(* cycle read its figures after every recorded redemption.                 *)
LatchInv ==
  /\ \A w \in Weekly : mem.latch[w].gen <= gen[w] /\ disk.latch[w].gen <= gen[w]
  /\ recorded \subseteq Weekly \X Nat
  /\ \A w \in Weekly, g \in Nat : <<w, g>> \in recorded =>
       /\ g <= gen[w]
       /\ g = gen[w] => LatchHolds(mem, w, g) /\ LatchHolds(disk, w, g)
       /\ pc = "decided" /\ ~cycle.snap.stale =>
            w \in DOMAIN cycle.snap.windows /\ g <= cycle.snap.windows[w].gen

LEMMA WeeklyFacts ==
  ASSUME CycleInv, NEW w \in Weekly
  PROVE  /\ w \in WindowIds /\ gen[w] \in Nat
         /\ mem.latch[w] \in LatchType /\ disk.latch[w] \in LatchType
         /\ RedeemAt \in Nat \ {0}
BY ControllerAssumption DEF CycleInv, TypeInv, AccountStates, WindowIds

(* A cycle that is recorded keeps the latch of the current generation.     *)
LEMMA LatchesKept ==
  ASSUME CycleInv, LatchInv, pc = "decided", ~cycle.snap.stale, NEW w \in Weekly
  PROVE  LET latch == RecordLatches(mem.latch, cycle.snap)[w]
         IN  /\ latch.gen <= gen[w]
             /\ \A g \in Nat : <<w, g>> \in recorded /\ g = gen[w] =>
                  latch.gen = g /\ latch.peak >= RedeemAt
<1> DEFINE r == cycle.snap.windows[w]
           latch == RecordLatches(mem.latch, cycle.snap)[w]
<1>1. w \in WindowIds /\ gen[w] \in Nat /\ mem.latch[w] \in LatchType /\ RedeemAt \in Nat
  BY WeeklyFacts
<1>2. CASE w \notin DOMAIN cycle.snap.windows
  <2>1. latch = NoLatch
    BY <1>1, <1>2 DEF RecordLatches, WindowIds
  <2>2. \A g \in Nat : <<w, g>> \notin recorded
    BY <1>2 DEF LatchInv
  <2> QED BY <1>1, <2>1, <2>2 DEF NoLatch
<1>3. CASE w \in DOMAIN cycle.snap.windows
  <2>1. r.used \in Nat /\ r.gen \in Nat /\ r.gen <= gen[w]
    BY <1>3 DEF CycleInv, FiguresInv
  <2>2. latch = [gen |-> r.gen,
                 peak |-> IF mem.latch[w].gen = r.gen THEN Max2(mem.latch[w].peak, r.used)
                          ELSE r.used]
    BY <1>1, <1>3 DEF RecordLatches, WindowIds
  <2> HIDE DEF latch
  <2>3. ASSUME NEW g \in Nat, <<w, g>> \in recorded, g = gen[w]
        PROVE  latch.gen = g /\ latch.peak >= RedeemAt
    <3>1. g <= r.gen /\ LatchHolds(mem, w, g)
      BY <2>3 DEF LatchInv
    <3>2. r.gen = g
      BY <2>1, <2>3, <3>1
    <3>3. mem.latch[w].peak \in Nat /\ mem.latch[w].peak >= RedeemAt
      BY <1>1, <3>1 DEF LatchType, LatchHolds
    <3>4. latch.peak = Max2(mem.latch[w].peak, r.used)
      BY <2>2, <3>1, <3>2 DEF LatchHolds
    <3> QED BY <1>1, <2>1, <2>2, <3>2, <3>3, <3>4 DEF Max2
  <2> QED BY <2>1, <2>2, <2>3 DEF latch
<1> QED BY <1>2, <1>3

LEMMA LatchInvNext ==
  ASSUME WeeklyReported
  PROVE  CycleInv /\ LatchInv /\ [Next]_vars => LatchInv'
<1> SUFFICES ASSUME CycleInv, LatchInv, [Next]_vars PROVE LatchInv'
  OBVIOUS
<1> USE DEF environmentVars
<1>1. CASE Decide
  <2>1. PICK snap \in Snapshots, brake \in BrakeType :
          mem' = [mem EXCEPT !.brake = brake] /\ cycle'.snap = Kept(snap)
    BY <1>1, DecideShape
  <2>2. UNCHANGED <<gen, disk, recorded>>
    BY <1>1 DEF Decide
  <2>3. mem'.latch = mem.latch
    BY <2>1 DEF CycleInv, TypeInv, AccountStates
  <2>4. ASSUME NEW w \in Weekly, ~Kept(snap).stale
        PROVE  w \in DOMAIN Kept(snap).windows /\ Kept(snap).windows[w].gen = gen[w]
    <3>1. w \in DOMAIN snap.windows /\ snap.windows[w].gen = gen[w]
      BY SnapshotUsable DEF WeeklyReported, CycleInv
    <3> QED BY <2>4, <3>1 DEF Kept, NoSnapshot
  <2> QED BY <2>1, <2>2, <2>3, <2>4 DEF LatchInv, LatchHolds
<1>2. CASE Actuate
  <2>1. /\ pc = "decided" /\ pc' = "save" /\ UNCHANGED <<gen, disk, recorded>>
        /\ mem'.latch = IF cycle.snap.stale THEN mem.latch
                        ELSE RecordLatches(mem.latch, cycle.snap)
    BY <1>2 DEF Actuate, CycleInv, TypeInv, AccountStates
  <2>2. CASE cycle.snap.stale
    BY <2>1, <2>2 DEF LatchInv, LatchHolds
  <2>3. CASE ~cycle.snap.stale
    BY <2>1, <2>3, LatchesKept DEF LatchInv, LatchHolds
  <2> QED BY <2>2, <2>3
<1>3. CASE Save
  <2>1. /\ mem' = mem /\ disk' = mem /\ gen' = gen /\ pc' = "idle"
        /\ recorded' = recorded \cup
             {<<w, mem.latch[w].gen>> : w \in {v \in Weekly : mem.latch[v].peak >= RedeemAt}}
    BY <1>3 DEF Save
  <2>2. \A w \in Weekly : mem.latch[w].gen \in Nat /\ gen[w] \in Nat
    BY WeeklyFacts DEF LatchType
  <2>3. recorded' \subseteq Weekly \X Nat
    BY <2>1, <2>2 DEF LatchInv
  <2>4. ASSUME NEW w \in Weekly, NEW g \in Nat, <<w, g>> \in recorded'
        PROVE  g <= gen[w] /\ (g = gen[w] => LatchHolds(mem, w, g))
    <3>1. \/ <<w, g>> \in recorded
          \/ g = mem.latch[w].gen /\ mem.latch[w].peak >= RedeemAt
      BY <2>1, <2>4
    <3> QED BY <3>1 DEF LatchInv, LatchHolds
  <2> QED BY <2>1, <2>3, <2>4 DEF LatchInv, LatchHolds
<1>4. CASE ObservationFails
  BY <1>4 DEF ObservationFails, LatchInv, LatchHolds
<1>5. CASE ActuationFails
  BY <1>5 DEF ActuationFails, LatchInv, LatchHolds
<1>6. CASE Crash
  BY <1>6 DEF Crash, LatchInv, LatchHolds
<1>7. CASE WorkerExits
  BY <1>7 DEF WorkerExits, LatchInv, LatchHolds
<1>8. CASE RosterChanges
  BY <1>8 DEF RosterChanges, LatchInv, LatchHolds
<1>9. ASSUME NEW v \in WindowIds, WindowResets(v) PROVE LatchInv'
  <2>1. UNCHANGED <<mem, disk, pc, cycle, recorded>>
    BY <1>9 DEF WindowResets
  <2>2. \A w \in Weekly : gen'[w] = gen[w] \/ gen'[w] = gen[w] + 1
    BY <1>9, WeeklyFacts DEF WindowResets, CycleInv, TypeInv
  <2>3. \A w \in Weekly : /\ gen[w] \in Nat /\ mem.latch[w].gen \in Nat
                           /\ disk.latch[w].gen \in Nat
    BY WeeklyFacts DEF LatchType
  <2> QED BY <2>1, <2>2, <2>3 DEF LatchInv, LatchHolds
<1>10. CASE TimePasses
  <2>1. mem'.latch = mem.latch /\ disk'.latch = disk.latch
    BY <1>10 DEF TimePasses, CycleInv, TypeInv, AccountStates
  <2> QED BY <1>10, <2>1 DEF TimePasses, LatchInv, LatchHolds
<1>11. CASE UNCHANGED vars
  BY <1>11 DEF vars, LatchInv, LatchHolds
<1> QED BY <1>1, <1>2, <1>3, <1>4, <1>5, <1>6, <1>7, <1>8, <1>9, <1>10, <1>11 DEF Next

(* What a cycle keeps of its snapshot names the same governing window.     *)
LEMMA KeptGoverns ==
  ASSUME NEW snap, Usable(snap), ~snap.stale
  PROVE  /\ BankedApplies(Kept(snap)) = BankedApplies(snap)
         /\ GoverningWindow(Kept(snap).windows) = GoverningWindow(snap.windows)
<1> DEFINE kept == Kept(snap).windows
<1>1. /\ DOMAIN kept = DOMAIN snap.windows
      /\ \A w \in DOMAIN snap.windows : kept[w].used = snap.windows[w].used
      /\ Kept(snap).credits = snap.credits
  BY DEF Kept
<1> HIDE DEF kept
<1>2. \A w \in DOMAIN snap.windows \cap Weekly :
        (\A v \in DOMAIN kept \cap Weekly : kept[v].used <= kept[w].used)
          = (\A v \in DOMAIN snap.windows \cap Weekly : snap.windows[v].used <= snap.windows[w].used)
  BY <1>1
<1>3. GoverningWindow(kept) = GoverningWindow(snap.windows)
  BY <1>1, <1>2 DEF GoverningWindow
<1>4. BankedApplies(Kept(snap)) = BankedApplies(snap)
  BY <1>1 DEF BankedApplies, BankedAvailable, kept
<1> QED BY <1>3, <1>4 DEF kept

LEMMA RedemptionNext ==
  ASSUME WeeklyReported, Fleet.max_scale_down_per_cycle > 0
  PROVE  CycleInv /\ LatchInv /\ RecordedRedemptionHolds /\ [Next]_vars => RecordedRedemptionHolds'
<1> SUFFICES ASSUME CycleInv, LatchInv, RecordedRedemptionHolds, [Next]_vars
             PROVE  RecordedRedemptionHolds'
  OBVIOUS
<1>1. CASE pc' # "decided"
  BY <1>1 DEF RecordedRedemptionHolds, PlannedGeneration
<1>2. CASE pc' = "decided" /\ ~Decide
  BY <1>2, CycleKept DEF RecordedRedemptionHolds, PlannedGeneration, Draining
<1>3. CASE pc' = "decided" /\ Decide
  <2>1. PICK snap \in Snapshots, pooled \in Nat :
          /\ pooled = EvaluatePool(snap, mem, Observed, unowned, Fleet)
          /\ cycle'.snap = Kept(snap) /\ cycle'.current = Observed
          /\ cycle'.desired \in Nat /\ cycle'.desired <= pooled
    BY <1>3, DecideShape
  <2>2. recorded' = recorded
    BY <1>3 DEF Decide
  <2> DEFINE w == GoverningWindow(snap.windows)
  <2> SUFFICES ASSUME ~snap.stale, BankedApplies(snap), <<w, snap.windows[w].gen>> \in recorded
               PROVE  Draining'
    <3>1. Usable(snap) /\ snap.stale \in BOOLEAN /\ Kept(snap).stale = snap.stale
      BY SnapshotUsable DEF CycleInv, Usable, Kept, NoSnapshot
    <3>2. ASSUME ~snap.stale, BankedApplies(snap)
          PROVE  Kept(snap).windows[w].gen = snap.windows[w].gen
      BY <3>1, <3>2, GoverningIsWeekly DEF Kept
    <3>3. ASSUME PlannedGeneration' \cap recorded' # {}
          PROVE  ~snap.stale /\ BankedApplies(snap) /\ <<w, snap.windows[w].gen>> \in recorded
      <4>1. ~snap.stale
        BY <2>1, <3>1, <3>3 DEF PlannedGeneration
      <4>2. BankedApplies(Kept(snap))
        BY <2>1, <3>3 DEF PlannedGeneration
      <4>3. BankedApplies(snap) /\ GoverningWindow(Kept(snap).windows) = w
        BY <3>1, <4>1, <4>2, KeptGoverns
      <4>4. PlannedGeneration' = {<<w, Kept(snap).windows[w].gen>>}
        BY <1>3, <2>1, <3>1, <4>1, <4>2, <4>3 DEF PlannedGeneration
      <4> QED BY <2>2, <3>2, <3>3, <4>1, <4>3, <4>4
    <3> QED BY <3>3 DEF RecordedRedemptionHolds
  <2>3. Usable(snap) /\ mem \in AccountStates /\ unowned \in Nat
    BY SnapshotUsable DEF CycleInv, TypeInv
  <2>4. w \in DOMAIN snap.windows /\ w \in Weekly
    BY <2>3, GoverningIsWeekly
  <2>5. snap.windows[w].gen = gen[w] /\ gen[w] \in Nat
    BY <2>4, SnapshotUsable, WeeklyFacts DEF CycleInv
  <2>6. LatchHolds(mem, w, snap.windows[w].gen)
    BY <2>4, <2>5 DEF LatchInv
  <2>7. Held(snap, mem)
    BY <2>6 DEF Held, ManualRedemption, LatchHolds
  <2>8. Fleet \in Fleets /\ Observed \in Fleet.min_workers .. Fleet.max_workers
        /\ Observed \in Nat /\ Fleet.min_workers \in Nat
    BY CycleAssumption, ObservedInRange, FleetFields DEF CycleInv
  <2>9. pooled <= Max2(Observed - 1, Fleet.min_workers)
    BY <2>1, <2>3, <2>7, <2>8, PoolPromises
  <2> QED BY <2>1, <2>8, <2>9 DEF Draining, Max2
<1> QED BY <1>1, <1>2, <1>3

(* controller.rs 597: once the redemption of a weekly generation has been  *)
(* recorded and saved, every later decision of that generation drains the  *)
(* pool, through lower readings, failed cycles, crashes and restarts.      *)
THEOREM RedemptionIsKept ==
  ASSUME WeeklyReported, Fleet.max_scale_down_per_cycle > 0
  PROVE  Spec => []RecordedRedemptionHolds
<1>1. Init => LatchInv /\ RecordedRedemptionHolds
  <2> SUFFICES ASSUME Init PROVE LatchInv /\ RecordedRedemptionHolds
    OBVIOUS
  <2>1. \A w \in Weekly : w \in WindowIds /\ gen[w] = 1 /\ EmptyState.latch[w].gen = 0
    BY ControllerAssumption DEF Init, EmptyState, NoLatch, WindowIds
  <2>2. recorded = {} /\ mem = EmptyState /\ disk = EmptyState
    BY DEF Init
  <2> QED BY <2>1, <2>2 DEF LatchInv, RecordedRedemptionHolds
<1>2. CycleInv /\ LatchInv /\ [Next]_vars => LatchInv'
  BY LatchInvNext
<1>3. CycleInv /\ LatchInv /\ RecordedRedemptionHolds /\ [Next]_vars => RecordedRedemptionHolds'
  BY RedemptionNext
<1> QED BY <1>1, <1>2, <1>3, CycleInvariant, PTL DEF Spec
=============================================================================
