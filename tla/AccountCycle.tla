---------------------------- MODULE AccountCycle ----------------------------
(***************************************************************************)
(* One account of one unfederated governor, cycle after cycle: collect a   *)
(* snapshot, count the workers, decide (Controller), actuate, record, save *)
(* the state file.  The state is kept in memory and copied to disk only at *)
(* the end of a cycle, so a crash in between forgets the cycle; a failed   *)
(* phase ends the account's cycle early and the state is saved all the     *)
(* same.                                                                   *)
(*                                                                         *)
(* The environment chooses the snapshots (any reading of the constants     *)
(* below), rolls quota windows over, ends workers, changes the roster, and *)
(* lets time pass.                                                         *)
(***************************************************************************)
EXTENDS Controller

CONSTANTS
  Fleet,                  \* the account's fleet bounds
  UsedLevels, Remainings, Elapsed,           \* readings a window may give
  Backlogs, CreditCounts, Burns, Fractions,  \* the rest of a snapshot
  WindowSets,             \* which window ids a snapshot may report
  BackpressureEnabled,    \* utilization.backpressure is configured
  Reconciliation,         \* observer_reconciliation: "strict" or "clamp"
  MaxUnowned, MaxGen,     \* bounds on the roster and on each window's generations
  Faults                  \* subset of {"crash", "observation", "actuation", "exit"}

WindowIds == DOMAIN Target

ASSUME CycleAssumption ==
  /\ Fleet \in Fleets
  /\ UsedLevels \subseteq 0 .. Full
  /\ Remainings \subseteq Nat /\ Elapsed \subseteq Nat
  /\ Backlogs \subseteq Nat \cup {Unbounded}
  /\ CreditCounts \subseteq Nat
  /\ Burns \subseteq [kind : {"none", "unsplit", "split"}, workers : Nat, missed : BOOLEAN]
  /\ Fractions \subseteq Nat \cup {NoSignal}
  /\ WindowSets \subseteq (SUBSET WindowIds) \ {{}}
  /\ BackpressureEnabled \in BOOLEAN
  /\ Reconciliation \in {"strict", "clamp"}
  /\ MaxUnowned \in Nat /\ MaxGen \in [WindowIds -> Nat]
  /\ Faults \subseteq {"crash", "observation", "actuation", "exit"}

VARIABLES
  running,  \* elastic workers of the account
  unowned,  \* roster workers that spend the same quota
  gen,      \* the provider's current generation of each window
  mem,      \* AccountState in memory
  disk,     \* AccountState in the state file
  pc,       \* "idle", "decided" or "save"
  cycle,    \* the decision being carried out
  redeemed, \* history: weekly generations in which redemption was decided
  recorded  \* history: weekly generations whose redemption reached the disk

vars == <<running, unowned, gen, mem, disk, pc, cycle, redeemed, recorded>>
environmentVars == <<unowned, gen>>

NoSnapshot == [stale |-> TRUE, windows |-> <<>>, backlog |-> Unbounded,
               credits |-> 0, fraction |-> NoSignal]
NoCycle == [snap |-> NoSnapshot, current |-> 0, unowned |-> 0, desired |-> 0]

EmptyState ==
  [sample |-> [w \in WindowIds |-> NoSample],
   latch |-> [w \in WindowIds |-> NoLatch],
   brake |-> NormalBrake]

Init ==
  /\ running \in 0 .. Fleet.max_workers
  /\ unowned \in 0 .. MaxUnowned
  /\ gen = [w \in WindowIds |-> 1]
  /\ mem = EmptyState
  /\ disk = EmptyState
  /\ pc = "idle"
  /\ cycle = NoCycle
  /\ redeemed = {}
  /\ recorded = {}

-----------------------------------------------------------------------------
Readings(w) ==
  [used : UsedLevels, gen : {gen[w]}, remaining : Remainings, elapsed : Elapsed]

Snapshots ==
  UNION { [stale : BOOLEAN,
           windows : {f \in [ids -> UNION {Readings(w) : w \in ids}] :
                        \A w \in ids : f[w].gen = gen[w]},
           backlog : Backlogs, credits : CreditCounts, burn : Burns,
           fraction : Fractions] : ids \in WindowSets }

(* What the rest of the cycle still reads of its snapshot.                 *)
Kept(snap) ==
  IF snap.stale THEN NoSnapshot
  ELSE [stale |-> FALSE,
        windows |-> [w \in DOMAIN snap.windows |->
                       [used |-> snap.windows[w].used, gen |-> snap.windows[w].gen]],
        backlog |-> snap.backlog, credits |-> snap.credits, fraction |-> snap.fraction]

(* reconcile_observed_range: a count outside the fleet range fails the     *)
(* account's cycle, or is pulled back into the range.                      *)
InRange == running \in Fleet.min_workers .. Fleet.max_workers

Observed == Clamp(running, Fleet.min_workers, Fleet.max_workers)

(* The weekly generations a snapshot's banked plan holds for redemption.   *)
RedemptionOf(snap) ==
  IF snap.stale \/ ~BankedApplies(snap) THEN {}
  ELSE LET w == GoverningWindow(snap.windows)
       IN  IF ManualRedemption(snap.windows[w], mem.latch[w])
           THEN {<<w, snap.windows[w].gen>>} ELSE {}

(* Collect, observe and decide.  The brake's new state is stored in memory *)
(* at once, before anything is actuated.                                   *)
Decide ==
  /\ pc = "idle"
  /\ InRange \/ Reconciliation = "clamp"
  /\ \E snap \in Snapshots :
       LET brake == IF BackpressureEnabled THEN NextBrake(mem.brake, snap) ELSE mem.brake
           pooled == EvaluatePool(snap, mem, Observed, unowned, Fleet)
       IN  /\ mem' = [mem EXCEPT !.brake = brake]
           /\ cycle' = [snap |-> Kept(snap), current |-> Observed, unowned |-> unowned,
                        desired |-> IF BackpressureEnabled
                                    THEN Braked(brake, pooled, Observed, Fleet.min_workers)
                                    ELSE pooled]
           /\ redeemed' = redeemed \cup RedemptionOf(snap)
  /\ pc' = "decided"
  /\ UNCHANGED <<running, environmentVars, disk, recorded>>

(* The collector or the observer failed, or no enabled window was          *)
(* reported: nothing changes, the state is still saved.                    *)
ObservationFails ==
  /\ pc = "idle"
  /\ "observation" \in Faults \/ (~InRange /\ Reconciliation = "strict")
  /\ pc' = "save"
  /\ UNCHANGED <<running, environmentVars, mem, disk, cycle, redeemed, recorded>>

(* The actuator is skipped when the target equals the observation.  A      *)
(* stale decision records nothing but the target; a fresh one records the  *)
(* sample against the workers the pool now has.                            *)
Actuate ==
  /\ pc = "decided"
  /\ LET actuated == cycle.desired # cycle.current
         workers == (IF actuated THEN cycle.desired ELSE cycle.current) + cycle.unowned
     IN  /\ running' = IF actuated THEN cycle.desired ELSE running
         /\ mem' = IF cycle.snap.stale THEN mem
                   ELSE [mem EXCEPT !.sample = RecordSamples(cycle.snap, workers),
                                    !.latch = RecordLatches(@, cycle.snap)]
  /\ pc' = "save"
  /\ UNCHANGED <<environmentVars, disk, cycle, redeemed, recorded>>

(* Launches and stops happen one by one; an error leaves any prefix done   *)
(* and the cycle is not recorded.                                          *)
ActuationFails ==
  /\ "actuation" \in Faults
  /\ pc = "decided"
  /\ cycle.desired # cycle.current
  /\ running' \in Min2(running, cycle.desired) .. Max2(running, cycle.desired)
  /\ pc' = "save"
  /\ UNCHANGED <<environmentVars, mem, disk, cycle, redeemed, recorded>>

(* state.save (atomic: see StateStore), then sleep.                        *)
Save ==
  /\ pc = "save"
  /\ disk' = mem
  /\ recorded' = recorded \cup
       {<<w, mem.latch[w].gen>> : w \in {v \in Weekly : mem.latch[v].peak >= RedeemAt}}
  /\ pc' = "idle"
  /\ cycle' = NoCycle
  /\ UNCHANGED <<running, environmentVars, mem, redeemed>>

(* The process dies, or state.save fails and run returns the error; the    *)
(* restarted governor loads what the file holds.                           *)
Crash ==
  /\ "crash" \in Faults
  /\ mem' = disk
  /\ pc' = "idle"
  /\ cycle' = NoCycle
  /\ UNCHANGED <<running, environmentVars, disk, redeemed, recorded>>

-----------------------------------------------------------------------------
WorkerExits ==
  /\ "exit" \in Faults
  /\ running > 0
  /\ running' = running - 1
  /\ UNCHANGED <<environmentVars, mem, disk, pc, cycle, redeemed, recorded>>

RosterChanges ==
  /\ \E n \in 0 .. MaxUnowned : n # unowned /\ unowned' = n
  /\ UNCHANGED <<running, gen, mem, disk, pc, cycle, redeemed, recorded>>

WindowResets(w) ==
  /\ gen[w] < MaxGen[w]
  /\ gen' = [gen EXCEPT ![w] = @ + 1]
  /\ UNCHANGED <<running, unowned, mem, disk, pc, cycle, redeemed, recorded>>

(* Time passes; only the age of the last usable pressure sample matters,   *)
(* and only up to the release bound.                                       *)
Older(brake) ==
  IF brake.age = Never \/ brake.age >= SignalLossRelease THEN brake
  ELSE [brake EXCEPT !.age = @ + 1]

TimePasses ==
  /\ mem' = [mem EXCEPT !.brake = Older(@)]
  /\ disk' = [disk EXCEPT !.brake = Older(@)]
  /\ UNCHANGED <<running, environmentVars, pc, cycle, redeemed, recorded>>

Next ==
  \/ Decide
  \/ Actuate
  \/ Save
  \/ ObservationFails
  \/ ActuationFails
  \/ Crash
  \/ WorkerExits
  \/ RosterChanges
  \/ \E w \in WindowIds : WindowResets(w)
  \/ TimePasses

Spec == Init /\ [][Next]_vars

(* The run loop: a cycle goes on to its next phase, and one that begins    *)
(* gets a decision unless the observed count is refused.                   *)
PhaseEnds ==
  \/ pc = "idle" /\ pc' \in {"decided", "save"}
  \/ pc = "decided" /\ pc' = "save"
  \/ pc = "save" /\ pc' = "idle"
Decides ==
  /\ pc = "idle" /\ pc' = "decided"
  /\ InRange \/ Reconciliation = "clamp"

(* The run loop keeps cycling, time keeps passing, and the provider and    *)
(* the observer do not fail every single time.  The fairness is stated on  *)
(* pc: Decide is enabled exactly where Decides is.                         *)
FairSpec == Spec /\ WF_pc(PhaseEnds) /\ SF_pc(Decides) /\ WF_vars(TimePasses)

-----------------------------------------------------------------------------
(* 9.1: a decision from a stale snapshot never adds a worker, whatever the *)
(* stale behaviour, the roster and the brake are.                          *)
StaleNeverGrows ==
  pc = "decided" /\ cycle.snap.stale => cycle.desired <= cycle.current

(* 9.6: downward, a decision is at most one step below the observed count. *)
ShrinkBounded ==
  pc = "decided" =>
    cycle.desired >= SaturatingSub(cycle.current, Fleet.max_scale_down_per_cycle)

(* The pool never grows past reported work, not even to its minimum.       *)
NoGrowthBeyondWork ==
  pc = "decided" /\ ~cycle.snap.stale /\ cycle.snap.backlog # Unbounded =>
    \/ cycle.desired <= cycle.current
    \/ cycle.desired + cycle.unowned <= cycle.snap.backlog

(* While the brake is engaged no decision adds workers, and in step_down   *)
(* none keeps them above the minimum.                                      *)
BrakeLimits ==
  pc = "decided" =>
    /\ mem.brake.mode # "normal" => cycle.desired <= cycle.current
    /\ mem.brake.mode = "step_down" =>
         \/ cycle.desired < cycle.current
         \/ cycle.desired <= Fleet.min_workers

(* The weekly generation this cycle's banked plan is about, if any.        *)
PlannedGeneration ==
  IF pc = "decided" /\ ~cycle.snap.stale /\ BankedApplies(cycle.snap)
  THEN LET w == GoverningWindow(cycle.snap.windows)
       IN  {<<w, cycle.snap.windows[w].gen>>}
  ELSE {}

(* Draining for the operator: not above the observed count, or the minimum. *)
Draining == cycle.desired <= Max2(cycle.current - 1, Fleet.min_workers)

(* controller.rs 597: once a generation has been held for redemption, no   *)
(* lower later reading of it resumes pacing.  The code does not keep this: *)
(* a cycle whose actuation fails records no peak.                          *)
RedemptionHolds == PlannedGeneration \cap redeemed # {} => Draining

(* The same for a redemption whose cycle was recorded and saved: neither a *)
(* lower reading nor a crash or restart resumes pacing.                    *)
RecordedRedemptionHolds == PlannedGeneration \cap recorded # {} => Draining

(* A brake whose signal has gone is released: it cannot hold the fleet     *)
(* down for ever without evidence.                                         *)
BrakeReleased ==
  (<>[][cycle'.snap.fraction = NoSignal]_cycle) => []<>(mem.brake.mode = "normal")
=============================================================================
