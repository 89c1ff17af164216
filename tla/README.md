# TLA+ model of subscription-quota-governor

`subgov` sizes worker fleets from provider quota. For every account it polls
quota windows, counts the workers that run, computes a target, reconciles the
fleet to it, records what it learned and saves a state file. Several governors
on several hosts may share one account ("federation"). This directory holds
TLA+ models of the parts of that program that carry its decisions and its
state, the TLC configurations that check them, and TLAPS proofs.

## The system

| Part | State | Operations | Talks to |
|---|---|---|---|
| Run loop (`main.rs`: `run`, `run_cycle`) | schedule anchor; else the state below | per account: pull peers, collect, observe, decide, gate, actuate, record; then save, write status, clear reservations, sleep | everything |
| Controller (`controller.rs`) | none (pure), reads `AccountState` | `evaluate`, `evaluate_pool`, `banked_reset_decision`, `apply_backpressure`, `apply_step_limits`, burn estimates | called by `run_cycle` |
| Account state (`state.rs`) | samples, peaks, aggregate history, brake, credit alerts, placements | `record`, `record_samples`, `record_host`, `record_credit_alerts` | written by `run_cycle`, saved by `run` |
| State store (`state.rs`) | the state file, its lock, temporary files, the pre-v8 snapshot | `StateLock::acquire`, `load` (with quarantine), `save`, `preserve_pre_migration_state` | `run`, and `peer-state` without the lock |
| Fleet and NEEDLE adapters (`fleet.rs`, `fleet/needle.rs`) | heartbeats, tmux sessions, target files | observe, `reconcile_observed_range`, actuate | `run_cycle` |
| Federation (`federation.rs`) | peer table, record sequence, instance id, status file | pull, ingest, freshness, expiry, record, split | peers, by `subgov peer-state` |
| Launch gate and ownership (`ownership.rs`) | pending-launch file, exclusions file | `gate_launch`, `permitted_launch`, `pending_observed`, overlap resolution | `run_cycle`, peers |
| Placement (`placement.rs`), saturation (`saturation.rs`) | placement history; saturation baseline, probe and reprobe time | distribution over hosts; saturation step | `run_cycle` |
| Quota sources (`source.rs`, `model.rs`) | app-server session and backoff, credential file | collect, refresh, parse, validate | providers, external commands |
| Configuration (`config.rs`) | none | defaults, validation, path expansion | every command |
| Dashboard (`dashboard.rs`), preflight (`preflight.rs`) | none | display; checks of an inventory | files written above |

What is hard here: peers exchange no messages but read each other's files at
any moment; a cycle acts on counts it read minutes before; new workers are
invisible until their first heartbeat; every phase may fail half way and the
process may die between any two file operations; the state is saved once per
cycle although decisions take effect before; a refresh token is spent before
its successor is stored; every host computes its share of an account by itself.
`hazards` in `PROJECT.json` lists each of these at its line.

## Modules

| Module | Models | State |
|---|---|---|
| `StepLimits`, `Sums`, `Identity` | `apply_step_limits`, saturating counts, sums over hosts, name prefixes | none |
| `Controller`, `Estimators`, `Advisories` | the pure controller and the brake; the burn histories and estimates; credit advisories | none |
| `AccountCycle` (extends `Controller`) | one unfederated account, cycle after cycle, in memory and on disk | `running`, `unowned`, `gen`, `mem`, `disk`, `pc`, `cycle`, two history variables |
| `BurnHistory` (extends `Dashboard`, which extends `Estimators`) | provider, collector, governor and dashboard around one quota window | `truth` (history), `snapshot`, `memory`, `reading` |
| `LaunchGate` (extends `StepLimits`, `Sums`) | several governors sharing an account through status and pending files | `running`, `status`, `pending`, the locals of each cycle, the peer table |
| `PeerPolicy`, `Federation` (extends `Distribution`) | what federation promises about silent peers; the peer table, shared total, split and freeze that implement it | `workers`, `demand`, `record`, `age`, `pulled`, `level` |
| `PeerRecords` | what a host publishes, what a peer accepts of it, overlaps and the `peers` report | none |
| `Distribution`, `Placement`, `PlacementHistory` | largest-remainder distribution with ceilings, demands and step limits; cycles of an account with several hosts; the recorded targets | `current`, `plan`, `fixed` |
| `Saturation` | throughput experiments | `running`, `sat`, `target`, `steady`, a history variable |
| `NeedleFleet` | one NEEDLE pool: heartbeats, sessions, exclusions, launches and stops | `sessions`, `attached`, `beats`, `excluded`, the locals of a cycle |
| `Adapters` | what observers and actuators make of files and commands | none |
| `Sources` (extends `ChildProcess`, `CodexSession`, `Credentials`) | the polls of one thread, the Codex session, external commands, the shared credentials file | as its parts |
| `Snapshots` | the parsers of both providers, validation of snapshots | none |
| `StateStore` | lock, load, quarantine, save, migration, crash by crash | `dir`, `durables`, `lock`, `pc`, `mem`, histories |
| `Config`, `RunLoop`, `Inventory` | defaults and validation; schedule, readiness, reports, doctor; preflight | none |
| `CountLemmas` and `LaunchGateProofs`, `StateStoreProofs`, `AccountCycleProofs`, `FederationProofs`, `PlacementProofs`, `FleetProofs` (`NeedleFleet`, `Saturation`, and facts of `Config` and `PeerRecords`), `SourcesProofs` (also of `BurnHistory` and `RunLoop`) | theorems and proofs | |
| `MC...` | constants for TLC, and facts (`ASSUME`) about the pure modules | |

### LaunchGate

A host walks `idle -> pulled -> (gate -> repull ->) actuate -> report
(-> clear) -> idle`, or ends in `failed`. Each arrow is an action, split where
another host can read in between: `GatePublish` writes the reservation, every
`RepullStatus`/`RepullPending` pair is one `peer-state` call on a peer (which
reads the status file and then the pending file), `GateCommit` admits what is
still permitted, `Actuate` reconciles, `WriteStatus` publishes the count
*observed at the start of the cycle*, and `ClearPending` drops the reservation
only if that observation covered it. `Faults` selects what goes wrong: heartbeat
lag, exits, crashes, lost pulls, expiry, failed phases, short launches, failed
status writes. The quota side is abstract (any target of `RawTargets`), and a
host's share is anything the split could give it. One pool per host; no
`fleet.hosts` map, no `--observe-only`, and every host has a positive step.

### Federation and PeerPolicy

The other half of federation: how old a peer's record may be, which records
share the account, how one total comes out of samples that disagree, and how it
is split. Here a gate's second pull and its launch are one step, because
`LaunchGate` takes them apart. A record's counts, demand and kind (of the same
account, of another, or without a measured ceiling) are kept. `PeerPolicy` is
the abstract specification: a peer goes from fresh to stale to expired while it
is not heard, starts as stale, and a host adds workers only while no peer is
stale. `Federation!ImplementsPolicy` is the refinement, with `Freshness` as the
mapping of the policy's `view`. `Distribution` computes with fractions as pairs
of naturals; where the code divides floats, an exact integral share may come
out one lower, so the set of hosts whose share is so rounded is a parameter.

### Controller, AccountCycle, Estimators, BurnHistory

Utilization is `0 .. Full`, a reset generation a number, time differences small
integers. The worker count that meets a required rate is one exact ceiling
division. Left out: weekly windows without a policy. `Decide` is collection,
observation and decision (the brake is stored in memory there, as in the code),
`Actuate` is actuation and `record`, `Save` copies memory to disk. A failed
phase goes to `save` without recording; `Crash` reloads the disk. `AccountCycle`
takes the 24-hour estimate as an input with its three outcomes;
`MCAccountCycle` checks that each of them is one `Estimators` gives.
`BurnHistory` confronts the estimates with the true burn: `ProviderCounts` adds
units and may reset the window, `Collect` writes a snapshot of whole quanta with
a jittering reset time, `GovernorPolls` records it in the three memories, and
the dashboard reads the state file and the snapshot in two steps.
`RoomForResets` says that a full aggregate history reaches back a baseline even
if each reset inside the baseline costs it one minimum interval. 3072 samples of
at least 60 s leave that room over 24 h while resets are 53 s or more apart.

### Placement, Saturation, NeedleFleet

`Placement!Decide` observes every host and places the account target;
`Actuate` runs the host actuators in order, any of which may fail and end the
cycle. `Saturation` keeps instants as capped ages; `Cycle` is one evaluation on
any snapshot, `CountChanges` what workers and operators do by themselves; the
count a cycle is told is inside the fleet range (`Reported`), because an
observation outside it is clamped or ends the cycle.
`NeedleFleet` writes worker numbers as numerals because the code sorts by name
and `needle stop` matches substrings; a small base makes the interesting names
few.

### Sources

The three parts take turns on the governor's one thread while their
environments go on. `CodexSession` knows for every figure how old it is and how
old its stamp says it is. `Credentials` has two governors and Claude Code on
one file; a lock belongs to the inode that was opened, and a rename makes a new
one. `ChildProcess` is the process group of a command with the three ways the
code runs one. `ChildFaults` is empty in the run: with it, calls that never end
are the finding listed below under hazards, not a property.

### StateStore

One action per system call whose place in the order matters. The directory is
what processes see; `durables` is the set of directories a power loss may bring
back (an ordered journal: any directory since the last sync). Contents are a
schema (`absent`, `torn`, `old`, `current`) and a cycle number. A process is
its pid, because temporary files are named by it and a pid may come back.
A newer schema is only ever refused and is left out.

## Runs

| Run | Instance | Shows |
|---|---|---|
| `launch_bound` | 2 hosts, 3 workers, step 1; lag, exit, crash, failed status write | `TypeOK`, `PublishedCoversRunning`, and `OvershootByPeerSteps`: the excess over the maximum is at most the steps of all hosts but one |
| `launch_faults` | 2 hosts, 1 worker, every fault | `PublishedCoversRunning` |
| `account_decisions` | weekly window in full-speed banked mode and a 5-hour ceiling, roster of 1, work 1 or unknown, all faults, one weekly reset | `StaleNeverGrows`, `ShrinkBounded`, `NoGrowthBeyondWork`, `RecordedRedemptionHolds` |
| `account_brake` | brake with fractions on both sides of its thresholds, 1..3 workers, all faults | `BrakeLimits`, `BrakeReleased` |
| `store_crash` | 3 pids, 3 cycles, 2 kills, power losses or failed calls, any initial file | `AcknowledgedSurvives`, `RollbackIsExact`, `SaveCompletes` |
| `store_operations` | 2 pids, unlocked readers, the previous release, snapshot restored | `RollbackAvailable` |
| `placement_rounds` | 3 hosts with ceilings 3, 2, 1, one unmeasured; targets 1 and 4 | `OvershootIsHeldWorkers`, `UnknownHostsFrozen`, `OnlyStepsHoldBack`, `Settles` |
| `saturation_probe` | up to 3 workers, step 2, three rates, repeated and late snapshots | `GrowthNeedsEvidence`, `RollbackFirst`, `ProbesResolve`, `NoDownwardLatch` |
| `source_sessions` | 2 governors, 3 tokens, 1 crash; 3 payloads, reconcile after 3 ticks; all ways to run a command | `NotStranded`, `SeenLoginIsKept`, `CutOffLeavesNothing`, `DriftBounded`, `StampErrorBounded`, `Recovers`, `HealthyAnswers`, `CommandEnds` |
| `federation_peers` | 2 hosts of different size, 3 workers, stale after 1 tick, expired after 3 | `SharesAddUp`, `ImplementsPolicy`, `NoIdleGrowth`, `Settles` |
| `needle_fleet` | a pool of 3 workers with 5 names, 2 peers, 2 repositories | `CeilingHolds`, `StopsOnlyChosen`, `KeepsOut` |
| `burn_history` | 6 ticks, quanta of 2, jitter 1, an early or scheduled reset | `EstimatesWithinTruth`, `ShownRateIsTrue`, `BaselineKept` |

Bounds. Two hosts are enough for a torn record, a crossing of two gates and a
peer that forgets; three workers leave room for one launch each and an
overshoot. Step 1 makes the bound tight. Two faults allow a crash during the
recovery from a crash; the third pid is the fresh one a restart gets when
leftovers block two. Two weekly generations show that a held redemption ends
with its generation. With two workers and steps of one every target is more
than a step away from some count. Placement needs a third host for a
distribution that takes from one to give to another while a third holds. A
saturation step of 2 in a range of 3 reaches both the clamped and the whole
step. Three tokens allow a rotation by each governor or by Claude Code and a
login. Names up to 5 in base 3 contain one that is part of another (1 and 11).
Six ticks hold a baseline, a reset and a history that is full.

Fairness. `LaunchGate!FairSpec` has weak fairness of each host's cycle: the run
loop never blocks for ever in a step of its own. `AccountCycle!FairSpec` adds
weak fairness of time and strong fairness of `Decide`: the provider and the
observer do not fail every single time. `StateStore!FairSpec` has weak fairness
of a running process and strong fairness of starting under each pid: the
service manager restarts a governor that ended, and pids vary. In `Placement`
and `Saturation` the run loop goes on; what must eventually happen is only
promised once inputs stand still and every sample is usable. `Placement!Settles`
is two-sided: the fleet then reaches the wanted total, or as much of it as the
ceilings of the hosts that may take workers allow, and neither passes nor
leaves it again, however integral shares round from cycle to cycle. `Sources!Spec` is
weakly fair to the steps of a call and of a poll and to the timeouts, which the
code enforces itself, and to a healthy app-server answering; commands may run
for ever. `Federation!Settles` needs no fairness: it says that after records
flow and quota and work stand still, only finitely many steps move a worker.

### Facts about the pure modules

TLC evaluates these on the runs of the modules that extend them, over every
input of a small domain, each against a definition of its own. `WorkersHaveOnePool`,
`HostsHaveTheirOwn`, `PoliciesResolve`, `OneKeeper`, `NoDrift`, `NoBurst` and
`OnlyOversleepIsLate` are also proved for every input (see Proofs).

| In | Facts |
|---|---|
| `MCNeedleFleet` (configuration) | `SomeLoad`, `DefaultsAreValid`, `LoadedIsValid`, `WorkersHaveOnePool` (no worker belongs to two pools of a valid file), `HostsHaveTheirOwn`, `PoliciesResolve` |
| `MCNeedleFleet` (adapters) | `EveryWorkerCountedOnce`, `OccupiedIsObserved`, `TornIsUnknown`, `TargetReadsBack`, `TokenIsOfTheCount` |
| `MCSources` | `OneFigurePerWindow`, `CountIsAuthoritative`, `ReachedMeansFull`, `OldFormIsAFallback`, `WholeOrNothing` |
| `MCFederation` (peer records) | `PublishedIsAccepted`, `OneKeeper` (one host keeps a contested repository), `ReportIsTheExclusions`, `ExclusionTakesItsOwn`, `UndatedEvidenceIsUnknown`, `ReportIsHonest` |
| `MCPlacement` (advisories) | `NoWarningLost`, `RepeatsOnlyAfterRelief`, `LevelsFollowTheCredits` |
| `MCPlacement` (placement history) | `HistoryIsTheNewest`, `AlternationIsExact` |
| `MCBurnHistory` (run loop) | `NoDrift`, `NoBurst`, `OnlyOversleepIsLate`, `SignalEndsSleep`, `StatusIsLastCycle`, `ReadinessIsHonest`, `DoctorIsExact`; preflight: `PassHasOneWriter`, `StopBeforeStart`, `UnknownFailsClosed` |
| `MCAccountCycle`, `MCSaturation` | `BurnsAreEstimated`, `AccountIsAccepted`, `PolicyIsAccepted`: the constants of the runs are values the code can produce or accept |

## Disagreements

Places where a comment, a document or a neighbouring part of the code says
something the code does not do. Each property named is a definition of its
module that no run checks; TLC finds the counterexample when it is checked with
the change of a configuration that is given.

| Property | Checked with | What happens | What is said |
|---|---|---|---|
| `LaunchGate!OvershootBound` | `launch_bound` with `"observation"` for `"statuswrite"` | A failed account's status entry has no count (`main.rs` 991), peers read zero (`federation.rs` 1240) and fill the room. | `plan.md` 1910: "the combined worker count never exceeds the controller total plus the overshoot bound across partition, restart of either instance, and a stale peer" |
| `LaunchGate!ReservationResolves` | `launch_faults` under `FairSpec`, `Faults = {"short"}`, steps of 2, without symmetry | A launch that starts too few workers leaves a reservation no observation covers, and the host never launches again (`ownership.rs` 402). | `needle.rs` 404: "fewer ready seeds than the delta launches fewer workers and the next cycle reconciles the rest" |
| `AccountCycle!RedemptionHolds` | `account_decisions` | A cycle whose actuation fails records no peak (`main.rs` 2057), and a lower later reading resumes pacing. | `controller.rs` 597: "Once a generation reaches redemption, lower later readings cannot resume worker pacing." |
| `AccountCycle!ShrinkBounded` | `account_decisions` with `FullSpeed = FALSE`, `Burns <- AnyBurn` | In paced banked mode the backlog caps the target after the step limit (`controller.rs` 463). | `plan.md` 434: "cap downward movement by `max_scale_down_per_cycle`" |
| `StateStore!AcknowledgedSurvives` | `store_operations` | A `peer-state` reader that parsed a malformed file renames whatever then has the name (`state.rs` 565). | `federation.rs` 1135: "a peer pull must never perturb the host it reads" |
| `Placement!PlacedWithinTarget` | `placement_rounds` | Workers held or slow to drain come on top of the target. | `placement.rs` 6: "Placement never authorizes more workers than the controller" decided |
| `Saturation!VerdictOnQuietFleet` | `saturation_probe` with `Track = TRUE` | A change that only a cycle without a usable sample saw does not invalidate the probe. | `saturation.rs` 131: "Manual/placement changes invalidate attribution." |
| `CodexSession!HonestStamp` | `source_sessions` | A pushed update is stamped when the next poll drains it (`source.rs` 1164). | the comment on `last_observed_at`: never the moment a cached answer is handed back |

Two more need no run. A host capacity file that is missing or malformed fails
the whole peer record (`federation.rs` 1151), where the comment at 1553 speaks
of evidence that "publishes no ceiling"; `PeerRecords!Ceilings` models it. And
the comment at `main.rs` 1121 expects a late cycle to be "typically the
previous cycle overrunning its interval", which `advance_schedule` never
reports as late (`MCBurnHistory!OnlyOversleepIsLate`).

One thing placement does not promise, and no comment of the code says: that a
cycle uses all the room there is. `place` divides the target first and applies
the hosts' steps afterwards, and what a step cuts off goes to no other host in
that cycle. Hosts with 1, 0 and 1 workers and a target of 4 become 1, 1 and 1
when the second may add only one, though the first has room and a step left.
`OnlyStepsHoldBack` therefore bounds what is missing by the room on the hosts
that step up as fast as they may, and `Settles` says that later cycles make up
for it.

Also kept as hazards: with `clamp`, a fleet below `min_workers` is reported as
`min_workers` and never topped up; a snapshot left by a killed first save is
accepted later although the previous release has moved the state file on
(`RollbackAvailable` holds, `RollbackIsExact` does not); a command that closes
its output and runs on, or leaves a daemon with the pipe, holds the governor
for ever (`ChildFaults`); a figure above 100 % fails the whole snapshot, so an
account beyond its quota is not evaluated (`ReachedMeansFull`).

## Proofs

Every theorem holds for every value of the constants that the named `ASSUME`s
of its module allow (TLC evaluates these on the runs). Most are of the form
`Spec => []Inv` or `Spec => Property` for a property that a run also checks on
its small instance; those without a property are about modules without
variables, and hold of every argument with the stated hypotheses.

| Module | Theorem: property | Inductive invariant |
|---|---|---|
| `LaunchGateProofs` | `TypeCorrect`: `TypeOK`; `PublicationCovers`: `PublishedCoversRunning` | `IInv` |
| | `OvershootIsBounded`: `OvershootByPeerSteps`, given `NoCycleFails` | `OInv` = `IInv`, `Calm`, `Decided` |
| `StateStoreProofs` | `AcknowledgedStateSurvives`: `AcknowledgedSurvives`; `RollbackStateIsExact`: `RollbackIsExact`; both without `"reader"` and `"oldbinary"` faults | `SInv` |
| | `RollbackStaysAvailable`: `RollbackAvailable`; `StoreTypeCorrect`: `TypeOK`, mutual exclusion included; with every fault | `KInv` |
| `AccountCycleProofs` | `StaleHolds`: `StaleNeverGrows`; `WorkBoundsGrowth`: `NoGrowthBeyondWork`; `BrakeHolds`: `BrakeLimits` | `CycleInv`, `DecisionInv` |
| | `ShrinkIsBounded`: `ShrinkBounded`, given `ShrinkIsStepped` and, with backpressure, a positive step down | the same |
| | `RedemptionIsKept`: `RecordedRedemptionHolds`, given `WeeklyReported` and a positive step down | with `LatchInv` |
| `FederationProofs` | `SharesStayWithinTotal`: `SharesAddUp`; `GrowthNeedsWork`: `NoIdleGrowth`; `FederationImplementsPolicy`: `ImplementsPolicy` | `TableInv` |
| `PlacementProofs` | `UnknownNeitherFillsNorDrains`: `UnknownHostsFrozen`; `OvershootIsOnlyHeld`: `OvershootIsHeldWorkers`; `WorkersMissOnlyForSteps`: `OnlyStepsHoldBack` | `PlanInv` |
| `FleetProofs` | `PoolStaysWithinCeiling`: `CeilingHolds`; `StopsTheChosenOne`: `StopsOnlyChosen`; `WorkersKeepOut`: `KeepsOut` | `CommandInv` |
| | `GrowthHasEvidence`: `GrowthNeedsEvidence`; `FailedChangeIsTakenBack`: `RollbackFirst` | `SatInv` |
| `SourcesProofs` | `AccountNotStranded`: `NotStranded`; `LoginKept`: `SeenLoginIsKept`; `CutOffIsComplete`: `CutOffLeavesNothing`; `DriftIsBounded`: `DriftBounded`; `StampErrorIsBounded`: `StampErrorBounded` | `SourcesInv` |
| | `EstimatesAreWithinTruth`: `EstimatesWithinTruth`; `BaselineIsKept`: `BaselineKept`; `ShownRateIsMeasured`: `ShownRateIsTrue` | `HistoryInv` |
| `FleetProofs`, of `Config` and `PeerRecords` | `PrefixesAreTellable`, `WorkersHaveOnePool`, `HostsHaveTheirOwn`, `HostsDeriveTheirOwn`, `RewriteOnce`; `OneKeeper`, `SomeKeeper`; `PoliciesResolve` | none |
| `SourcesProofs`, of `RunLoop` | `NoDrift`, `NoBurst`, `OnlyOversleepIsLate` | `StartNearAnchor` |

### How the arguments go

*Launch gate.* `PublishedCoversRunning` is not inductive. Whether a count and a
reservation cover the workers after a launch depends on what was observed
before the reservation was published, and clearing it is safe only because the
status file written just before holds an observation of the whole reservation.
`IInv` adds, per host: a reservation covers everything above its baseline
(`Reserved`); at the gate the observation was complete, because no reservation
was open (`AtGate`); the target is covered by what is already published
(`AtActuate`); an observation that will clear the reservation has reached
baseline plus count (`SeenAll`); and a re-pulled reservation comes with the
count read before it (`ReadInOrder`). Observation lag enters through
`ObservableRange` only: a worker may be missed only while a reservation stands
for it.

The overshoot bound compares a sum over hosts that launched at different times
with a total one gate added up. `Decided` says that there is such a gate: of
the launches admitted so far, the one whose reservation was published last. It
read of every peer a status file that hides at most one launch of that peer
(`StatusHidesOneLaunch`), so the sum is at most its total and one step of every
other host; and a gate that published later and is still re-reading has read
what it needs to take over. `NoCycleFails` is needed: with a lost pull or a
failed phase the bound is false, which is the first disagreement above.

*State store.* `SInv` has a part per process (what its place in `save` implies
about its temporary file, the snapshot and the state file) and a part per
directory a power loss may leave (`DirInv`). Two facts carry the rollback
theorem: before the first current save all those directories hold the same
older file (`SameOld`), so the one that is replaced is the one that was copied;
and a directory without a snapshot still holds the older file itself
(`Replaced`), which is why accepting an unsynced snapshot is harmless on an
ordered journal. With unlocked readers and the previous release in between both
facts fail and so do the two theorems; what is left, `KInv`, is that either no
older state was ever replaced or every directory keeps one.

*Account.* First what `evaluate`, `evaluate_pool`, the banked plan and the brake
return, as lemmas about the controller's operators for all snapshots; then that
every decision of a cycle, with the state that memory then holds, has these
bounds until it is carried out (`CycleInv` and `DecisionInv`).
`LatchInv` says that a redemption on disk is still in memory and on disk, with
its peak, as long as its generation lasts. `ShrinkIsStepped` excludes the paced
banked mode, in which the property is false (see above). `WeeklyReported` is
needed because a window that a snapshot leaves out is forgotten with its peak;
a step down of zero cannot drain.

*Saturation.* Every branch of `apply_zai_saturation`, from the verdict outwards,
returns a result that is `Justified`: it grows on `Evidence` only, and replaces
an experiment only by the way back. The one surprising case is a shrink that
asks for more workers, because its candidate is raised to a floor; it needs a
count below the minimum, which the observer never reports, or a stopped fleet,
which an earlier branch has started.

*Federation and placement.* Both divide a total by `Distribution`.
`CountLemmas!DistributeDivides` is the contract of `distribute` and of the
rounds of redistribution behind it. The refinement is proved step by step: each
action of `Federation` is a step of `PeerPolicy` or leaves its view alone; the
interesting one is the gate, which launches only when every peer is fresh or
expired. In `Placement` every property proved is one of the plan, so `PlanInv` only
says that the plan is a placement of the inputs it records. For
`WorkersMissOnlyForSteps` the spread of `distribute` adds up to the whole budget
as soon as one eligible host is not full; a host gets less than its spread only
by its step up, and then has room for the difference.

*NEEDLE.* `CommandInv` says what each queued command still relies on when it
runs: a launch that there is room for it and for those behind it and that its
workspace is not excluded, a stop that no other session contains its name.

*Worker names.* A worker name is a prefix and digits, so of two prefixes that
match one name the longer would have its last character among the digits; if it
is a separator, it cannot. That leaves prefixes to differ at all, which the
validation asks of accounts on one host, which the length decides between a
configured prefix and one derived from it, and the host id between two derived
ones. Prefixes that do not end in a separator are accepted by the code and are
outside these theorems: `z` and `z1` both match `z12`. So are hosts whose
prefixes come from different configured ones: pool `z-a` of host `b` and pool
`z` of host `a-b` derive the same prefix, and only the comparison with the
peers' records can refuse it.

*Repositories.* Every host that lists a repository sees the same set of hosts
that list it, itself included, so all of them choose the same one.

*Schedule.* A turn starts no earlier than its anchor and no later than the
jitter and the oversleep after it (`StartNearAnchor`); the next anchor is at
least an interval later, or the end of a cycle that already took as long.

*Sources.* That a rename cannot strand the account rests on who knows a refresh
token: one that was issued and not yet installed is known to its holder alone
(`Private`). That a cut-off command leaves nothing rests on the leader never
leaving its group. That figures are no older than the reconcile interval rests
on an update never being older than the session's clock.

*Burn history.* The properties compare what is computed from copies of copies
with what the provider counted, so `HistoryInv` follows the copies: everything
written down, in the window, the history, the aggregate samples, the snapshot
and the state file a dashboard has read, was once read (`WasRead`), in the tick
it names and under the reset time of that tick's generation; and the provider
counts up, with generations at least `MinReset` apart (`TruthInv`). With
`HistoryAssumption`, which keeps the jitter below the tolerance and resets
further apart than that, `same_reset_generation` then tells generations apart
exactly (`HistoryIsTrue` states the invariant).
Of one generation the difference of two readings is the true burn plus what the
first left unreported minus what the second does; of two it is no more. Summed
over the intervals the unreported parts cancel except at the ends
(`BurnTelescopes`), so an estimate over any number of samples and resets is less
than one quantum above the truth. `BaselineIsKept` counts: each further sample
is a minimum interval later unless a reset lies between (`ReachesStep`), and
`RoomForResets` bounds how many do. `compatible_history` cuts the samples into
runs time by time; the runs it keeps begin with a reading of the generation
shown (`RunsBeginWell`), which is all a rate between the first and the last
sample needs.

*Counts.* `CountLemmas` also has `StepLimitsHold`, the contract of
`apply_step_limits`, and the sums over finite sets (a sum of naturals is a
natural, is monotone, and can be split). The library's induction theorems take
an operator, so inductions are carried out over a set of naturals or of subsets
(`NatSetInduction`, `SubsetInduction`, from the library's `WFMin`).

### Only model-checked

* All liveness (`BrakeReleased`, `SaveCompletes`, `Recovers`, `HealthyAnswers`,
  `CommandEnds`, `ProbesResolve`, `NoDownwardLatch`, both `Settles`), which is
  out of the prover's reach.
* The other facts of the MC modules: most are about operators that sort, parse
  or recurse over data, and a proof would need induction over that data.

## Not modelled

* The terminal interface (`dashboard/ui.rs`) and the rendering half of
  `dashboard.rs` draw what `collect` computed; they keep no state that decides
  anything.
* Argument parsing, event printing, metrics formatting, YAML reading and error
  wording in `main.rs` and `config.rs`.
* HTTP transport, redirects and TLS in `source.rs`: an answer arrives, fails or
  is lost.
* The scripts are deployment helpers reached through command adapters, whose
  output and exit are arbitrary in `ChildProcess` and `Adapters`.
* Accounts with several pools per host in the launch gate; weekly windows
  without a policy.

## Plan

1. Facts about `seed_order` beyond what `KeepsOut` needs: seeds spread over
   workspaces.
2. The exact conditions under which `OvershootByPeerSteps` survives a failed
   phase.
