----------------------------- MODULE Placement -----------------------------
(***************************************************************************)
(* An unfederated account with a fleet.hosts map, cycle after cycle: every *)
(* host is observed, the controller's account target is placed, and the    *)
(* host actuators run one after the other.  The quota side is abstract: a  *)
(* cycle's controller asks for any member of RawTargets, within the        *)
(* account's step limits.                                                  *)
(***************************************************************************)
EXTENDS Distribution

CONSTANTS
  HostConfigs,  \* host -> [ceiling, step_up, step_down, measured], defaults applied
  Fleet,        \* the account's fleet bounds (observer_reconciliation: clamp)
  RawTargets,   \* what the quota controller may ask for
  Unit,         \* headroom fractions are multiples of 1/Unit
  MaxWorkers,   \* bound: workers a host starts with
  MaxShort      \* bound: integral shares that rounding loses in one cycle

Hosts == DOMAIN HostConfigs

ASSUME PlacementFleet == Fleet \in Fleets
ASSUME PlacementHosts ==
  /\ IsFiniteSet(Hosts) /\ Hosts \subseteq Nat /\ Hosts # {}
  /\ \A h \in Hosts : HostConfigs[h] \in [ceiling : Nat, step_up : Nat, step_down : Nat,
                                          measured : BOOLEAN]
ASSUME PlacementInputs == RawTargets \subseteq Nat /\ Unit \in Nat \ {0} /\ MaxWorkers \in Nat
                            /\ MaxShort \in Nat

VARIABLES
  current,  \* workers that run on each host
  plan,     \* between placement and actuation: what was seen and placed
  fixed     \* the inputs of all cycles to come, once they stop changing

vars == <<current, plan, fixed>>

Sum(f) == SumOver(f, DOMAIN f)

(* collect_host_resources: the free fraction of each host, Unknown when    *)
(* the source failed or answered for another host, and everything for a    *)
(* host that has no resource_source.                                       *)
Resources ==
  { r \in [Hosts -> {Unknown} \cup 0 .. Unit] :
      \A h \in Hosts : HostConfigs[h].measured \/ r[h] = Unit }

(* total_host_workers with reconcile_observed_range in its clamp mode.     *)
ObservedTotal == Clamp(Sum(current), Fleet.min_workers, Fleet.max_workers)

(* Between two cycles.                                                     *)
NoPlan == [raw |-> 0, resources |-> [h \in Hosts |-> Unknown],
           before |-> [h \in Hosts |-> 0], target |-> 0, placed |-> [h \in Hosts |-> 0]]

Settled == fixed # <<>>

(* Workers left by an earlier configuration may lie above a ceiling.       *)
Init ==
  /\ current \in [Hosts -> 0 .. MaxWorkers]
  /\ plan = NoPlan
  /\ fixed = <<>>

(* evaluate and place: the account target is one step from what was seen. *)
Planned(raw, resources, short) ==
  LET target == ApplyStepLimits(raw, ObservedTotal, Fleet)
  IN  [raw |-> raw, resources |-> resources, before |-> current, target |-> target,
       placed |-> Place(target, current, resources, HostConfigs, Unit, short)]

Inputs == IF Settled THEN {fixed} ELSE RawTargets \X Resources

Decide ==
  /\ plan = NoPlan
  /\ \E input \in Inputs, short \in SUBSET Hosts :
       /\ Cardinality(short) <= MaxShort
       /\ plan' = Planned(input[1], input[2], short)
  /\ UNCHANGED <<current, fixed>>

(* actuate_host_targets: the hosts in order; the first actuator that fails *)
(* ends the cycle and the hosts after it are not reached.                  *)
Reached(failed) == {h \in Hosts : h < failed}

Actuated(reached) ==
  [h \in Hosts |-> IF h \in reached THEN plan.placed[h] ELSE current[h]]

Actuate ==
  /\ plan # NoPlan
  /\ current' = Actuated(Hosts)
  /\ plan' = NoPlan
  /\ UNCHANGED fixed

ActuationFails ==
  /\ plan # NoPlan /\ ~Settled
  /\ \E failed \in Hosts : current' = Actuated(Reached(failed))
  /\ plan' = NoPlan
  /\ UNCHANGED fixed

WorkerExits ==
  /\ ~Settled
  /\ \E h \in Hosts : current[h] > 0 /\ current' = [current EXCEPT ![h] = @ - 1]
  /\ UNCHANGED <<plan, fixed>>

(* From here on the demand and the resources stay as they are, and at      *)
(* least one host can take workers.                                        *)
Settle ==
  /\ plan = NoPlan /\ ~Settled
  /\ fixed' \in {input \in RawTargets \X Resources : Eligible(input[2]) # {}}
  /\ UNCHANGED <<current, plan>>

Next == Decide \/ Actuate \/ ActuationFails \/ WorkerExits \/ Settle

Spec == Init /\ [][Next]_vars

(* The run loop goes on: weak fairness of Decide and of Actuate once       *)
(* Settled, written out because each is enabled exactly when the other is  *)
(* not and a cycle always changes plan.                                    *)
CyclesGoOn == (Settled ~> (plan = NoPlan)) /\ (Settled ~> (plan # NoPlan))
FairSpec == Spec /\ CyclesGoOn

-----------------------------------------------------------------------------
(* Placement never authorizes more workers than the controller decided     *)
(* (the module comment of placement.rs).  The code does not keep this:     *)
(* held workers and hosts that step down slowly come on top.               *)
PlacedWithinTarget == plan.placed # plan.before => Sum(plan.placed) <= plan.target

(* What does bound a placement: workers beyond the controller's target sit *)
(* only on hosts that already step down as fast as they may, or that hold  *)
(* because their resources are unknown.  The others share what the target  *)
(* leaves after the holding hosts.                                         *)
StepsDown(h) ==
  plan.placed[h] = Min2(SaturatingSub(plan.before[h], HostConfigs[h].step_down),
                        HostConfigs[h].ceiling)
OvershootIsHeldWorkers ==
  LET eligible == Eligible(plan.resources)
      free == {h \in eligible : ~(StepsDown(h) /\ plan.placed[h] <= plan.before[h])}
  IN  SumOver(plan.placed, free)
        <= SaturatingSub(plan.target, SumOver(plan.placed, Hosts \ eligible))

(* A host whose resources are unknown or exhausted never gains a worker,   *)
(* and keeps its workers (up to its ceiling) unless the account shrinks:   *)
(* stale data alone neither fills nor drains a host.                       *)
UnknownHostsFrozen ==
  \A h \in Hosts \ Eligible(plan.resources) :
    /\ plan.placed[h] <= plan.before[h]
    /\ plan.target >= Sum(plan.before) =>
         plan.placed[h] = Min2(plan.before[h], HostConfigs[h].ceiling)

(* Workers are missing from the controller's target only where a host's    *)
(* own step limit cuts its share off: unless every host that may take      *)
(* workers and is not held back by its step is full, no more are missing   *)
(* than the hosts that step up as fast as they may have room for.  What a  *)
(* step cuts off does not go to another host in the same cycle: hosts      *)
(* <<1, 0, 1>> with a target of 4 become <<1, 1, 1>> when the second host  *)
(* may add one, though the first has room and a step left.                 *)
StepsUp(h) == /\ plan.placed[h] = plan.before[h] + HostConfigs[h].step_up
              /\ plan.placed[h] < HostConfigs[h].ceiling
Room == [h \in Hosts |-> SaturatingSub(HostConfigs[h].ceiling, plan.placed[h])]
OnlyStepsHoldBack ==
  LET eligible == Eligible(plan.resources)
      limited == {h \in eligible : StepsUp(h)}
  IN  eligible # {} =>
        \/ \A h \in eligible \ limited : plan.placed[h] = HostConfigs[h].ceiling
        \/ plan.target <= Sum(plan.placed) + SumOver(Room, limited)

(* Cycles with unchanged inputs reach the wanted total, or as much of it   *)
(* as the hosts that may take workers have room for, and stay there, in    *)
(* spite of the overshoot and the step limits on the way.                  *)
AtTarget ==
  LET wanted == Clamp(fixed[1], Fleet.min_workers, Fleet.max_workers)
      room == SumOver([h \in Hosts |-> HostConfigs[h].ceiling], Eligible(fixed[2]))
  IN  Min2(wanted, room) <= Sum(current) /\ Sum(current) <= wanted
Settles == Settled ~> [](Settled /\ AtTarget)
=============================================================================
