--------------------------- MODULE PlacementProofs ---------------------------
(***************************************************************************)
(* What a placement promises, for any hosts, ceilings, steps, headrooms    *)
(* and targets, however integral shares round, and whichever actuators     *)
(* fail or workers exit between the cycles.                                *)
(*                                                                         *)
(* PlanInv says that the plan is a placement of its own inputs; the rest   *)
(* is what place does: hosts that may not receive workers reserve what     *)
(* they keep, distribute divides the rest (DistributeDivides), and every   *)
(* host then takes its own step.                                           *)
(***************************************************************************)
EXTENDS Placement, CountLemmas

-----------------------------------------------------------------------------
(* placement::apply_step_limit.                                            *)
HostType == [ceiling : Nat, step_up : Nat, step_down : Nat, measured : BOOLEAN]

LEMMA HostStepBounds ==
  ASSUME NEW desired \in Nat, NEW now \in Nat, NEW host \in HostType
  PROVE  /\ HostStep(desired, now, host) \in Nat
         /\ HostStep(desired, now, host) <= host.ceiling
BY DEF HostStep, Min2, SaturatingSub, HostType

(* A step lands above what was asked for only by going down as fast as it  *)
(* may.                                                                    *)
LEMMA HostStepAbove ==
  ASSUME NEW desired \in Nat, NEW now \in Nat, NEW host \in HostType,
         HostStep(desired, now, host) > desired
  PROVE  /\ HostStep(desired, now, host) = Min2(SaturatingSub(now, host.step_down), host.ceiling)
         /\ HostStep(desired, now, host) <= now
BY DEF HostStep, Min2, SaturatingSub, HostType

(* A step lands below what was asked for, within the ceiling, only by      *)
(* going up as fast as it may.                                             *)
LEMMA HostStepBelow ==
  ASSUME NEW desired \in Nat, NEW now \in Nat, NEW host \in HostType,
         desired <= host.ceiling, HostStep(desired, now, host) < desired
  PROVE  HostStep(desired, now, host) = now + host.step_up
BY DEF HostStep, Min2, SaturatingSub, HostType

(* A host asked to stay does, up to its ceiling; one asked to empty steps  *)
(* down; and a second step from the same count changes neither.            *)
LEMMA HostStepKept ==
  ASSUME NEW now \in Nat, NEW host \in HostType, NEW desired \in {now, 0}
  PROVE  LET kept == HostStep(desired, now, host)
         IN  /\ kept <= now
             /\ desired = now => kept = Min2(now, host.ceiling)
             /\ HostStep(kept, now, host) = kept
BY DEF HostStep, Min2, SaturatingSub, HostType

LEMMA KeptByIneligible ==
  ASSUME NEW target, NEW before \in [Hosts -> Nat], NEW h \in Hosts
  PROVE  LET kept == IneligibleTarget(target, before, HostConfigs, h)
         IN  /\ kept \in Nat
             /\ kept <= before[h]
             /\ target >= Sum(before) => kept = Min2(before[h], HostConfigs[h].ceiling)
             /\ HostStep(kept, before[h], HostConfigs[h]) = kept
<1> DEFINE desired == IF target >= SumOver(before, DOMAIN before) THEN before[h] ELSE 0
           kept == HostStep(desired, before[h], HostConfigs[h])
<1>1. before[h] \in Nat /\ HostConfigs[h] \in HostType /\ desired \in {before[h], 0} /\ desired \in Nat
  BY PlacementHosts DEF HostType
<1>2. IneligibleTarget(target, before, HostConfigs, h) = kept
  BY DEF IneligibleTarget
<1>3. target >= Sum(before) => desired = before[h]
  BY DEF Sum
<1> HIDE DEF desired
<1>4. kept \in Nat
  BY <1>1, HostStepBounds
<1>5. kept <= before[h]
  BY <1>1, HostStepKept
<1>6. desired = before[h] => kept = Min2(before[h], HostConfigs[h].ceiling)
  BY <1>1, HostStepKept
<1>7. HostStep(kept, before[h], HostConfigs[h]) = kept
  BY <1>1, HostStepKept
<1> HIDE DEF kept
<1> QED BY <1>2, <1>3, <1>4, <1>5, <1>6, <1>7

-----------------------------------------------------------------------------
(* place, when some host may receive workers: the others keep `kept`, the  *)
(* rest of the target is divided into `spread`.                            *)
Ceilings == [h \in Hosts |-> HostConfigs[h].ceiling]

PlacedBy(target, before, eligible, placed, spread, kept) ==
  /\ spread \in [Hosts -> Nat] /\ kept \in [Hosts -> Nat]
  /\ \A h \in Hosts : kept[h] = IF h \in eligible THEN 0
                                 ELSE IneligibleTarget(target, before, HostConfigs, h)
  /\ \A h \in Hosts : placed[h] = IF h \in eligible
                                   THEN HostStep(spread[h], before[h], HostConfigs[h])
                                   ELSE kept[h]
  /\ Divides(Hosts, SaturatingSub(target, SumOver(kept, Hosts)), eligible, Ceilings, spread)

LEMMA PlaceDivides ==
  ASSUME NEW target \in Nat, NEW before \in [Hosts -> Nat], NEW resources \in Resources,
         NEW short, Eligible(resources) # {}
  PROVE  \E spread, kept :
           PlacedBy(target, before, Eligible(resources),
                    Place(target, before, resources, HostConfigs, Unit, short), spread, kept)
<1> DEFINE eligible == Eligible(resources)
           kept == [h \in Hosts |-> IF h \in eligible THEN 0
                                    ELSE IneligibleTarget(target, before, HostConfigs, h)]
           budget == SaturatingSub(target, SumOver(kept, Hosts))
           headroom == Headroom(resources)
           spread == Distribute(budget, eligible, headroom, Ceilings, Unit, short)
           placed == Place(target, before, resources, HostConfigs, Unit, short)
           raw == [h \in Hosts |-> IF h \in eligible THEN spread[h] ELSE kept[h]]
<1>1. \A h \in Hosts : IneligibleTarget(target, before, HostConfigs, h) \in Nat
  BY KeptByIneligible
<1>2. kept \in [Hosts -> Nat]
  BY <1>1
<1>3. SumOver(kept, Hosts) \in Nat
  <2> HIDE DEF kept
  <2> QED BY <1>2, PlacementHosts, SumOverNat
<1>4. budget \in Nat
  <2> HIDE DEF kept
  <2> QED BY <1>3, SaturatingSubNat
<1>5. DOMAIN resources = Hosts /\ resources \in [Hosts -> {Unknown} \cup 0 .. Unit] /\ Unit \in Nat
  BY PlacementInputs DEF Resources
<1>6. eligible \subseteq Hosts /\ headroom \in [Hosts -> Nat] /\ Ceilings \in [Hosts -> Nat]
  BY <1>5, PlacementHosts DEF Eligible, Headroom, Ceilings, Unknown
<1>7. Divisible(Hosts, eligible, headroom, Ceilings)
  <2> HIDE DEF eligible, headroom
  <2> QED BY <1>6, PlacementHosts DEF Divisible
<1>8. placed = [h \in Hosts |-> HostStep(raw[h], before[h], HostConfigs[h])]
  BY DEF Place, Hosts, Ceilings
<1> HIDE DEF eligible, headroom, budget, spread
<1>9. Divides(Hosts, budget, eligible, Ceilings, spread)
  BY <1>4, <1>5, <1>7, DistributeDivides DEF spread
<1>10. \A h \in Hosts \ eligible : HostStep(kept[h], before[h], HostConfigs[h]) = kept[h]
  BY KeptByIneligible
<1>11. spread \in [Hosts -> Nat]
  BY <1>9 DEF Divides, Within
<1>12. \A h \in Hosts : placed[h] = IF h \in eligible
                                    THEN HostStep(spread[h], before[h], HostConfigs[h])
                                    ELSE kept[h]
  BY <1>8, <1>10
<1>13. PlacedBy(target, before, eligible, placed, spread, kept)
  BY <1>2, <1>9, <1>11, <1>12 DEF PlacedBy, budget
<1> QED BY <1>13 DEF eligible

-----------------------------------------------------------------------------
(* The plan is a placement of the counts, the headrooms and the target it  *)
(* records, whatever has happened to the workers since.                    *)
IsPlacement ==
  /\ plan.target \in Nat /\ plan.before \in [Hosts -> Nat] /\ plan.resources \in Resources
  /\ \E short : plan.placed = Place(plan.target, plan.before, plan.resources,
                                    HostConfigs, Unit, short)

PlanInv ==
  /\ current \in [Hosts -> Nat]
  /\ fixed # <<>> => fixed \in RawTargets \X Resources
  /\ plan # NoPlan => IsPlacement

(* With nobody eligible every host keeps its workers, up to its ceiling.   *)
LEMMA PlaceHolds ==
  ASSUME NEW target, NEW before \in [Hosts -> Nat], NEW resources, NEW short,
         Eligible(resources) = {}
  PROVE  LET placed == Place(target, before, resources, HostConfigs, Unit, short)
         IN  /\ placed \in [Hosts -> Nat]
             /\ \A h \in Hosts : placed[h] = Min2(before[h], HostConfigs[h].ceiling)
<1> DEFINE placed == Place(target, before, resources, HostConfigs, Unit, short)
<1>1. placed = [h \in Hosts |-> HostStep(before[h], before[h], HostConfigs[h])]
  BY DEF Place, Hosts
<1>2. ASSUME NEW h \in Hosts
      PROVE  /\ HostStep(before[h], before[h], HostConfigs[h]) = Min2(before[h], HostConfigs[h].ceiling)
             /\ HostStep(before[h], before[h], HostConfigs[h]) \in Nat
  <2>1. before[h] \in Nat /\ HostConfigs[h] \in HostType
    BY PlacementHosts DEF HostType
  <2>2. HostStep(before[h], before[h], HostConfigs[h]) \in Nat
    BY <2>1, HostStepBounds
  <2>3. HostStep(before[h], before[h], HostConfigs[h]) = Min2(before[h], HostConfigs[h].ceiling)
    BY <2>1, HostStepKept
  <2> QED BY <2>2, <2>3
<1> HIDE DEF placed
<1> QED BY <1>1, <1>2 DEF placed

LEMMA PlacedType ==
  ASSUME IsPlacement
  PROVE  plan.placed \in [Hosts -> Nat]
<1>1. PICK short : plan.placed = Place(plan.target, plan.before, plan.resources,
                                       HostConfigs, Unit, short)
  BY DEF IsPlacement
<1>2. /\ plan.target \in Nat /\ plan.before \in [Hosts -> Nat] /\ plan.resources \in Resources
  BY DEF IsPlacement
<1>3. CASE Eligible(plan.resources) = {}
  BY <1>1, <1>2, <1>3, PlaceHolds
<1>4. CASE Eligible(plan.resources) # {}
  <2>1. PICK spread, kept : PlacedBy(plan.target, plan.before, Eligible(plan.resources),
                                     plan.placed, spread, kept)
    BY <1>1, <1>2, <1>4, PlaceDivides
  <2>2. ASSUME NEW h \in Hosts
        PROVE  plan.placed[h] \in Nat
    <3>1. spread[h] \in Nat /\ kept[h] \in Nat /\ plan.before[h] \in Nat /\ HostConfigs[h] \in HostType
      BY <1>2, <2>1, PlacementHosts DEF PlacedBy, HostType
    <3>2. HostStep(spread[h], plan.before[h], HostConfigs[h]) \in Nat
      BY <3>1, HostStepBounds
    <3> QED BY <2>1, <3>1, <3>2 DEF PlacedBy
  <2>3. plan.placed = [h \in Hosts |-> plan.placed[h]]
    BY <1>1 DEF Place, Hosts
  <2> QED BY <2>2, <2>3
<1> QED BY <1>3, <1>4

LEMMA ActuatedType ==
  ASSUME PlanInv, plan # NoPlan, NEW reached
  PROVE  Actuated(reached) \in [Hosts -> Nat]
<1>1. plan.placed \in [Hosts -> Nat] /\ current \in [Hosts -> Nat]
  BY PlacedType DEF PlanInv
<1> QED BY <1>1 DEF Actuated

LEMMA ObservedTotalNat ==
  ASSUME current \in [Hosts -> Nat]
  PROVE  ObservedTotal \in Nat
<1>1. DOMAIN current = Hosts /\ SumOver(current, Hosts) \in Nat
  BY PlacementHosts, SumOverNat
<1>2. Fleet.min_workers \in Nat /\ Fleet.max_workers \in Nat
  BY PlacementFleet DEF Fleets
<1> QED BY <1>1, <1>2 DEF ObservedTotal, Sum, Clamp, Max2, Min2

LEMMA InitPlan ==
  Init => PlanInv
BY PlacementInputs DEF Init, PlanInv

LEMMA NextPlan ==
  PlanInv /\ [Next]_vars => PlanInv'
<1> SUFFICES ASSUME PlanInv, [Next]_vars
             PROVE  PlanInv'
  OBVIOUS
<1>1. CASE Decide
  <2>1. PICK input \in Inputs, short \in SUBSET Hosts : plan' = Planned(input[1], input[2], short)
    BY <1>1 DEF Decide
  <2>2. input[1] \in Nat /\ input[2] \in Resources
    BY PlacementInputs DEF Inputs, Settled, PlanInv
  <2> DEFINE target == ApplyStepLimits(input[1], ObservedTotal, Fleet)
  <2>3. target \in Nat
    <3>1. ObservedTotal \in Nat /\ Fleet \in Fleets
      BY ObservedTotalNat, PlacementFleet DEF PlanInv
    <3>2. target \in Fleet.min_workers .. Fleet.max_workers
      BY <2>2, <3>1, StepLimitsHold
    <3>3. Fleet.min_workers \in Nat
      BY PlacementFleet DEF Fleets
    <3> HIDE DEF target
    <3> QED BY <3>2, <3>3
  <2> HIDE DEF target
  <2>4. /\ plan'.target = target /\ plan'.before = current /\ plan'.resources = input[2]
        /\ plan'.placed = Place(target, current, input[2], HostConfigs, Unit, short)
    BY <2>1 DEF Planned, target
  <2>5. IsPlacement'
    BY <2>2, <2>3, <2>4 DEF IsPlacement, PlanInv
  <2> QED BY <1>1, <2>5 DEF Decide, PlanInv
<1>2. CASE Actuate
  BY <1>2, ActuatedType DEF Actuate, PlanInv
<1>3. CASE ActuationFails
  BY <1>3, ActuatedType DEF ActuationFails, PlanInv
<1>4. CASE WorkerExits
  <2>1. PICK h \in Hosts : current[h] > 0 /\ current' = [current EXCEPT ![h] = @ - 1]
    BY <1>4 DEF WorkerExits
  <2>2. current' \in [Hosts -> Nat]
    BY <2>1 DEF PlanInv
  <2>3. plan' = plan /\ fixed' = fixed
    BY <1>4 DEF WorkerExits
  <2> QED BY <2>2, <2>3 DEF PlanInv, IsPlacement
<1>5. CASE Settle
  BY <1>5 DEF Settle, PlanInv, IsPlacement
<1>6. CASE UNCHANGED vars
  BY <1>6 DEF vars, PlanInv, IsPlacement
<1> QED BY <1>1, <1>2, <1>3, <1>4, <1>5, <1>6 DEF Next

(* The plan is always a placement of the inputs it records.                *)
THEOREM PlanIsPlacement ==
  Spec => []PlanInv
BY InitPlan, NextPlan, PTL DEF Spec

-----------------------------------------------------------------------------
(* Between two cycles there is nothing placed and nobody eligible.         *)
LEMMA NoPlanIsEmpty ==
  ASSUME plan = NoPlan
  PROVE  /\ Eligible(plan.resources) = {} /\ plan.target = 0 /\ plan.placed = plan.before
         /\ plan.before \in [Hosts -> Nat] /\ \A h \in Hosts : plan.before[h] = 0
BY DEF NoPlan, Eligible, Unknown

(* place: an unknown or exhausted host never gains a worker,               *)
(* and loses none (above its ceiling) unless the account shrinks.          *)
THEOREM UnknownNeitherFillsNorDrains ==
  Spec => []UnknownHostsFrozen
<1> DEFINE Frozen(h) ==
      /\ plan.placed[h] <= plan.before[h]
      /\ plan.target >= Sum(plan.before) =>
           plan.placed[h] = Min2(plan.before[h], HostConfigs[h].ceiling)
<1>1. ASSUME PlanInv, NEW h \in Hosts \ Eligible(plan.resources)
      PROVE  Frozen(h)
  <2>0. HostConfigs[h].ceiling \in Nat
    BY PlacementHosts
  <2>1. CASE plan = NoPlan
    BY <2>0, <2>1, NoPlanIsEmpty DEF Min2
  <2>2. CASE plan # NoPlan
    <3>1. PICK short : plan.placed = Place(plan.target, plan.before, plan.resources,
                                           HostConfigs, Unit, short)
      BY <1>1, <2>2 DEF PlanInv, IsPlacement
    <3>2. /\ plan.target \in Nat /\ plan.before \in [Hosts -> Nat] /\ plan.resources \in Resources
      BY <1>1, <2>2 DEF PlanInv, IsPlacement
    <3>3. CASE Eligible(plan.resources) = {}
      <4>1. plan.placed[h] = Min2(plan.before[h], HostConfigs[h].ceiling)
        BY <3>1, <3>2, <3>3, PlaceHolds
      <4> QED BY <2>0, <3>2, <4>1 DEF Min2
    <3>4. CASE Eligible(plan.resources) # {}
      <4>1. PICK spread, kept : PlacedBy(plan.target, plan.before, Eligible(plan.resources),
                                         plan.placed, spread, kept)
        BY <3>1, <3>2, <3>4, PlaceDivides
      <4>2. plan.placed[h] = IneligibleTarget(plan.target, plan.before, HostConfigs, h)
        BY <4>1 DEF PlacedBy
      <4>3. plan.placed[h] <= plan.before[h]
        BY <3>2, <4>2, KeptByIneligible
      <4>4. plan.target >= Sum(plan.before) =>
              plan.placed[h] = Min2(plan.before[h], HostConfigs[h].ceiling)
        BY <3>2, <4>2, KeptByIneligible
      <4> QED BY <4>3, <4>4
    <3> QED BY <3>3, <3>4
  <2> QED BY <2>1, <2>2
<1>2. PlanInv => UnknownHostsFrozen
  BY <1>1 DEF UnknownHostsFrozen
<1> QED BY <1>2, PlanIsPlacement, PTL

-----------------------------------------------------------------------------
(* What the hosts that may not receive workers keep is what they hold.     *)
LEMMA KeptIsHeld ==
  ASSUME NEW target, NEW before, NEW eligible \in SUBSET Hosts, NEW placed, NEW spread, NEW kept,
         PlacedBy(target, before, eligible, placed, spread, kept)
  PROVE  SumOver(kept, Hosts) = SumOver(placed, Hosts \ eligible)
<1> DEFINE others == Hosts \ eligible
<1>1. IsFiniteSet(eligible) /\ IsFiniteSet(others) /\ IsFiniteSet(Hosts)
  BY PlacementHosts, FS_Subset
<1>2. \A h \in Hosts : kept[h] \in Nat
  BY DEF PlacedBy
<1>3. SumOver(kept, Hosts) = SumOver(kept, eligible) + SumOver(kept, others)
  BY <1>1, <1>2, SumUnion
<1>4. SumOver(kept, eligible) = 0
  <2>1. \A h \in eligible : kept[h] = 0
    BY DEF PlacedBy
  <2> QED BY <1>1, <2>1, SumZero
<1>5. SumOver(kept, others) = SumOver(placed, others)
  <2>1. \A h \in others : kept[h] \in Nat /\ kept[h] = placed[h]
    BY <1>2 DEF PlacedBy
  <2> HIDE DEF others
  <2> QED BY <1>1, <2>1, SumEqual
<1>6. SumOver(placed, others) \in Nat
  <2>1. \A h \in others : placed[h] \in Nat
    BY <1>2 DEF PlacedBy
  <2> HIDE DEF others
  <2> QED BY <1>1, <2>1, SumOverNat
<1> HIDE DEF others
<1>7. SumOver(kept, Hosts) = SumOver(placed, others)
  BY <1>3, <1>4, <1>5, <1>6
<1> QED BY <1>7 DEF others

(* placement.rs: workers beyond the target sit only on hosts that step     *)
(* down as fast as they may or hold because their resources are unknown.   *)
THEOREM OvershootIsOnlyHeld ==
  Spec => []OvershootIsHeldWorkers
<1> DEFINE eligible == Eligible(plan.resources)
           free == {h \in eligible : ~(StepsDown(h) /\ plan.placed[h] <= plan.before[h])}
           held == SumOver(plan.placed, Hosts \ eligible)
<1>1. ASSUME PlanInv
      PROVE  SumOver(plan.placed, free) <= SaturatingSub(plan.target, held)
  <2>0. /\ plan.placed \in [Hosts -> Nat] /\ plan.target \in Nat /\ plan.before \in [Hosts -> Nat]
        /\ eligible \in SUBSET Hosts
    <3>1. CASE plan = NoPlan
      BY <3>1, NoPlanIsEmpty
    <3>2. CASE plan # NoPlan
      <4>1. IsPlacement
        BY <1>1, <3>2 DEF PlanInv
      <4> QED BY <4>1, PlacedType DEF IsPlacement, Resources, Eligible
    <3> QED BY <3>1, <3>2
  <2>1. held \in Nat /\ SaturatingSub(plan.target, held) \in Nat
    <3>1. IsFiniteSet(Hosts \ eligible)
      BY PlacementHosts, FS_Subset
    <3>2. \A h \in Hosts \ eligible : plan.placed[h] \in Nat
      BY <2>0
    <3> HIDE DEF eligible
    <3>3. held \in Nat
      BY <3>1, <3>2, SumOverNat
    <3> HIDE DEF held
    <3> QED BY <2>0, <3>3, SaturatingSubNat
  <2>2. CASE eligible = {}
    <3>1. free = {}
      BY <2>2
    <3>2. SumOver(plan.placed, free) = 0
      BY <3>1, SumEmpty
    <3> HIDE DEF held, free
    <3> QED BY <2>1, <3>2
  <2>3. CASE eligible # {}
    <3>0. IsPlacement
      BY <1>1, <2>3, NoPlanIsEmpty DEF PlanInv
    <3>1. PICK spread, kept : PlacedBy(plan.target, plan.before, eligible, plan.placed, spread, kept)
      BY <2>3, <3>0, PlaceDivides DEF IsPlacement
    <3> HIDE DEF eligible
    <3>2. SumOver(kept, Hosts) = held
      BY <2>0, <3>1, KeptIsHeld
    <3>3. /\ \A h \in Hosts : spread[h] \in Nat
          /\ SumOver(spread, Hosts) <= SaturatingSub(plan.target, held)
      BY <3>1, <3>2 DEF PlacedBy, Divides, Within
    <3>4. free \in SUBSET Hosts /\ IsFiniteSet(free) /\ IsFiniteSet(Hosts)
      BY <2>0, PlacementHosts, FS_Subset
    <3>5. ASSUME NEW h \in free
          PROVE  plan.placed[h] <= spread[h]
      <4>1. /\ spread[h] \in Nat /\ plan.before[h] \in Nat /\ HostConfigs[h] \in HostType
            /\ plan.placed[h] \in Nat
        BY <2>0, <3>3, <3>4, PlacementHosts DEF HostType
      <4>2. plan.placed[h] = HostStep(spread[h], plan.before[h], HostConfigs[h])
        BY <2>0, <3>1 DEF PlacedBy
      <4>3. ~(StepsDown(h) /\ plan.placed[h] <= plan.before[h])
        OBVIOUS
      <4>4. ~(plan.placed[h] > spread[h])
        BY <4>1, <4>2, <4>3, HostStepAbove DEF StepsDown
      <4> QED BY <4>1, <4>4
    <3>6. \A h \in free : plan.placed[h] \in Nat /\ spread[h] \in Nat /\ plan.placed[h] <= spread[h]
      BY <2>0, <3>3, <3>4, <3>5
    <3> HIDE DEF free, held
    <3>7. SumOver(plan.placed, free) <= SumOver(spread, free)
      BY <3>4, <3>6, SumMonotonic
    <3>8. SumOver(spread, free) <= SumOver(spread, Hosts)
      BY <3>3, <3>4, SumSubset
    <3>9. SumOver(plan.placed, free) \in Nat /\ SumOver(spread, free) \in Nat /\ SumOver(spread, Hosts) \in Nat
      BY <3>3, <3>4, <3>6, SumOverNat
    <3> QED BY <2>1, <3>3, <3>7, <3>8, <3>9
  <2> QED BY <2>2, <2>3
<1>2. PlanInv => OvershootIsHeldWorkers
  BY <1>1 DEF OvershootIsHeldWorkers
<1> QED BY <1>2, PlanIsPlacement, PTL

-----------------------------------------------------------------------------
(* placement.rs 253: whatever is missing from the target was cut off by    *)
(* the steps of hosts that have room for it, unless all others are full.   *)
THEOREM WorkersMissOnlyForSteps ==
  Spec => []OnlyStepsHoldBack
<1> DEFINE eligible == Eligible(plan.resources)
           limited == {g \in eligible : StepsUp(g)}
<1>1. ASSUME PlanInv, eligible # {}, NEW h \in eligible \ limited,
             plan.placed[h] # HostConfigs[h].ceiling
      PROVE  plan.target <= Sum(plan.placed) + SumOver(Room, limited)
  <2>0. IsPlacement
    BY <1>1, NoPlanIsEmpty DEF PlanInv
  <2>1. /\ plan.placed \in [Hosts -> Nat] /\ plan.target \in Nat /\ plan.before \in [Hosts -> Nat]
        /\ eligible \in SUBSET Hosts
    BY <2>0, PlacedType DEF IsPlacement, Resources, Eligible
  <2>2. PICK spread, kept : PlacedBy(plan.target, plan.before, eligible, plan.placed, spread, kept)
    BY <1>1, <2>0, PlaceDivides DEF IsPlacement
  <2> DEFINE others == Hosts \ eligible
             free == eligible \ limited
             held == SumOver(plan.placed, others)
             budget == SaturatingSub(plan.target, held)
  <2> HIDE DEF eligible
  <2>3. SumOver(kept, Hosts) = held
    BY <2>1, <2>2, KeptIsHeld
  <2>4. Divides(Hosts, budget, eligible, Ceilings, spread)
    BY <2>2, <2>3 DEF PlacedBy
  <2>5. /\ \A g \in Hosts : spread[g] \in Nat
        /\ \A g \in eligible : spread[g] <= HostConfigs[g].ceiling
        /\ \A g \in others : spread[g] = 0
    BY <2>1, <2>4 DEF Divides, Within, Ceilings
  <2>6. ASSUME NEW g \in eligible
        PROVE  /\ plan.placed[g] \in Nat /\ plan.placed[g] <= HostConfigs[g].ceiling
               /\ HostConfigs[g].ceiling \in Nat
               /\ g \in free => spread[g] <= plan.placed[g]
    <3>1. /\ spread[g] \in Nat /\ plan.before[g] \in Nat /\ HostConfigs[g] \in HostType
          /\ plan.placed[g] \in Nat /\ spread[g] <= HostConfigs[g].ceiling /\ g \in Hosts
      BY <2>1, <2>5, PlacementHosts DEF HostType
    <3>2. plan.placed[g] = HostStep(spread[g], plan.before[g], HostConfigs[g])
      BY <2>1, <2>2 DEF PlacedBy
    <3>3. plan.placed[g] <= HostConfigs[g].ceiling
      BY <3>1, <3>2, HostStepBounds
    <3>4. HostConfigs[g].ceiling \in Nat
      BY <3>1, PlacementHosts
    <3>5. ASSUME plan.placed[g] < spread[g]
          PROVE  StepsUp(g)
      <4>1. plan.placed[g] = plan.before[g] + HostConfigs[g].step_up
        BY <3>1, <3>2, <3>5, HostStepBelow
      <4>2. plan.placed[g] < HostConfigs[g].ceiling
        BY <3>1, <3>4, <3>5
      <4> QED BY <4>1, <4>2 DEF StepsUp
    <3>6. g \in free => spread[g] <= plan.placed[g]
      BY <3>1, <3>5
    <3> QED BY <3>1, <3>3, <3>4, <3>6
  <2>7. /\ IsFiniteSet(Hosts) /\ IsFiniteSet(eligible) /\ IsFiniteSet(others)
        /\ IsFiniteSet(free) /\ IsFiniteSet(limited)
    BY <2>1, PlacementHosts, FS_Subset
  <2>8. \A g \in Hosts : plan.placed[g] \in Nat
    BY <2>1
  <2>9. \A g \in limited : /\ Room[g] \in Nat
                          /\ spread[g] \in Nat /\ plan.placed[g] \in Nat
                          /\ spread[g] <= plan.placed[g] + Room[g]
    BY <2>1, <2>5, <2>6, <2>8 DEF Room, SaturatingSub
  <2>10. \A g \in free : spread[g] \in Nat /\ plan.placed[g] \in Nat /\ spread[g] <= plan.placed[g]
    BY <2>1, <2>5, <2>6, <2>8
  <2>11. SumOver(spread, Hosts) = budget
    <3>1. h \in eligible /\ h \in free /\ h \in Hosts
      BY <1>1, <2>1
    <3>2. spread[h] # Ceilings[h]
      BY <1>1, <2>5, <2>6, <2>10, <3>1 DEF Ceilings
    <3> QED BY <2>4, <3>1, <3>2 DEF Divides
  <2>12. held \in Nat
    <3>1. \A g \in others : plan.placed[g] \in Nat
      BY <2>8
    <3> HIDE DEF others
    <3> QED BY <2>7, <3>1, SumOverNat
  <2> HIDE DEF limited
  <2>13. limited \in SUBSET eligible /\ eligible \in SUBSET Hosts
    BY <2>1 DEF limited
  <2> HIDE DEF free, others
  <2>14. SumOver(spread, Hosts) = SumOver(spread, limited) + SumOver(spread, free)
    <3>1. SumOver(spread, Hosts) = SumOver(spread, eligible) + SumOver(spread, others)
      BY <2>5, <2>7, <2>13, SumUnion DEF others
    <3>2. \A g \in eligible : spread[g] \in Nat
      BY <2>5, <2>13
    <3>3. SumOver(spread, eligible) = SumOver(spread, limited) + SumOver(spread, free)
      BY <2>7, <2>13, <3>2, SumUnion DEF free
    <3>4. SumOver(spread, others) = 0 /\ SumOver(spread, eligible) \in Nat
      BY <2>5, <2>7, <3>2, SumZero, SumOverNat
    <3> QED BY <3>1, <3>3, <3>4
  <2>15. Sum(plan.placed) = SumOver(plan.placed, limited) + SumOver(plan.placed, free) + held
    <3>1. Sum(plan.placed) = SumOver(plan.placed, Hosts)
      BY <2>1 DEF Sum
    <3>2. SumOver(plan.placed, Hosts) = SumOver(plan.placed, eligible) + held
      BY <2>7, <2>8, <2>13, SumUnion DEF others
    <3>3. \A g \in eligible : plan.placed[g] \in Nat
      BY <2>8, <2>13
    <3>4. SumOver(plan.placed, eligible) = SumOver(plan.placed, limited) + SumOver(plan.placed, free)
      BY <2>7, <2>13, <3>3, SumUnion DEF free
    <3> QED BY <3>1, <3>2, <3>4
  <2>16. SumOver(spread, free) <= SumOver(plan.placed, free)
    BY <2>7, <2>10, SumMonotonic
  <2>17. SumOver(spread, limited) <= SumOver(plan.placed, limited) + SumOver(Room, limited)
    <3> DEFINE filled == [g \in limited |-> plan.placed[g] + Room[g]]
    <3>1. \A g \in limited : spread[g] \in Nat /\ filled[g] \in Nat /\ spread[g] <= filled[g]
      BY <2>9
    <3>2. SumOver(filled, limited) = SumOver(plan.placed, limited) + SumOver(Room, limited)
      BY <2>7, <2>9, SumPlus
    <3> HIDE DEF filled
    <3>3. SumOver(spread, limited) <= SumOver(filled, limited)
      BY <2>7, <3>1, SumMonotonic
    <3> QED BY <3>2, <3>3
  <2>18. /\ SumOver(spread, limited) \in Nat /\ SumOver(spread, free) \in Nat
         /\ SumOver(plan.placed, limited) \in Nat /\ SumOver(plan.placed, free) \in Nat
         /\ SumOver(Room, limited) \in Nat
    BY <2>7, <2>9, <2>10, SumOverNat
  <2> HIDE DEF held
  <2>19. plan.target <= budget + held
    BY <2>1, <2>12 DEF SaturatingSub
  <2>20. budget \in Nat
    BY <2>1, <2>12, SaturatingSubNat
  <2> HIDE DEF budget
  <2> QED BY <2>1, <2>11, <2>12, <2>14, <2>15, <2>16, <2>17, <2>18, <2>19, <2>20
<1>2. PlanInv => OnlyStepsHoldBack
  BY <1>1 DEF OnlyStepsHoldBack
<1> QED BY <1>2, PlanIsPlacement, PTL
=============================================================================
