----------------------------- MODULE LaunchGate -----------------------------
(***************************************************************************)
(* The federated launch protocol: the governors of several hosts share one *)
(* account, each runs its own control loop, and each launches only after   *)
(* it has published a reservation and re-read what its peers published.    *)
(*                                                                         *)
(* A host is its governor process (pc and the locals of run_cycle), the    *)
(* two files its peers can see (status.json and the pending-launch file)   *)
(* and the workers it really runs.  Peers never exchange messages: a pull  *)
(* runs `subgov peer-state` on the peer, which reads the peer's status     *)
(* file and then, separately, its pending file.                            *)
(*                                                                         *)
(* One account, one pool per host, no fleet.hosts map (host_current is     *)
(* None).  The quota side is abstract: a cycle's raw controller target is  *)
(* any member of RawTargets, and the split of the total is any share the   *)
(* real split may give this host, since demand and host ceilings are free. *)
(***************************************************************************)
EXTENDS StepLimits, Sums

CONSTANTS
  Hosts,       \* the instances of the federation (host ids)
  RawTargets,  \* the account targets the quota controller may ask for
  Fleet,       \* the account's fleet bounds and account-level steps
  StepUp,      \* local_step_limit of each host (a host with step 0 never launches)
  Faults       \* which faults of the environment this instance includes

(* What may go wrong around the protocol.  "lag": a fresh worker has no    *)
(* heartbeat yet; "exit": a worker ends; "crash": a governor dies and is   *)
(* restarted; "loss": a pull is not answered; "expiry": a peer goes        *)
(* unheard past peer_expiry; "observation"/"actuation": that phase of a    *)
(* cycle fails; "short": fewer workers start than were asked for;          *)
(* "statuswrite": writing status.json fails.                               *)
AllFaults == {"lag", "exit", "crash", "loss", "expiry", "observation",
              "actuation", "short", "statuswrite"}

ASSUME HostsFinite == IsFiniteSet(Hosts) /\ Hosts # {}
ASSUME FleetAssumption == Fleet \in Fleets
ASSUME StepUpAssumption == StepUp \in [Hosts -> Nat \ {0}]
ASSUME RawAssumption == RawTargets \subseteq Nat
ASSUME FaultsAssumption == Faults \subseteq AllFaults

VARIABLES
  running,   \* workers that really run on the host
  status,    \* current_workers in the host's status file, or Unknown
  pending,   \* the host's reservation [count, baseline]; count 0 is none
  pc,        \* where the host's governor is in its cycle
  seen,      \* workers observed in this cycle
  total,     \* shared account total derived in this cycle
  desired,   \* this cycle's target for the host
  observed,  \* pending_observed_pool: this cycle saw the whole reservation
  view,      \* last governed_workers accepted from each peer, or Unknown
  age,       \* freshness of each peer on this receiver's clock
  expired,   \* expired_hosts as classified in this cycle
  repull     \* what the gate's re-pull has read of each peer so far

protocolVars == <<running, status, pending>>
localVars == <<seen, total, desired, observed, expired, repull>>
peerVars == <<view, age>>
vars == <<running, status, pending, pc, seen, total, desired, observed,
          view, age, expired, repull>>

NoPending == [count |-> 0, baseline |-> 0]
NotRead == [workers |-> Unknown, pending |-> Unknown]

Peers(h) == Hosts \ {h}

Goto(h, next) == pc' = [pc EXCEPT ![h] = next]

(* pool_states: governed_workers is current_workers.unwrap_or(0).          *)
GovernedWorkers(h) == IF status[h] = Unknown THEN 0 ELSE status[h]

(* The cycle's locals go out of scope when the cycle ends.                 *)
EndCycle(h) ==
  /\ Goto(h, "idle")
  /\ seen' = [seen EXCEPT ![h] = 0]
  /\ total' = [total EXCEPT ![h] = 0]
  /\ desired' = [desired EXCEPT ![h] = 0]
  /\ observed' = [observed EXCEPT ![h] = FALSE]
  /\ expired' = [expired EXCEPT ![h] = {}]
  /\ repull' = [repull EXCEPT ![h] = [p \in Peers(h) |-> NotRead]]

Total(f) == SumOver(f, DOMAIN f)

-----------------------------------------------------------------------------
(* An installation that has been running: every host's status file counts  *)
(* its workers and no launch is in flight.                                 *)
Init ==
  /\ running \in [Hosts -> 0 .. Fleet.max_workers]
  /\ Total(running) <= Fleet.max_workers
  /\ status = running
  /\ pending = [h \in Hosts |-> NoPending]
  /\ pc = [h \in Hosts |-> "idle"]
  /\ seen = [h \in Hosts |-> 0]
  /\ total = [h \in Hosts |-> 0]
  /\ desired = [h \in Hosts |-> 0]
  /\ observed = [h \in Hosts |-> FALSE]
  /\ view = [h \in Hosts |-> [p \in Peers(h) |-> Unknown]]
  /\ age = [h \in Hosts |-> [p \in Peers(h) |-> "stale"]]
  /\ expired = [h \in Hosts |-> {}]
  /\ repull = [h \in Hosts |-> [p \in Peers(h) |-> NotRead]]

(* The pull at the start of a cycle and ingest_cycle: each peer that       *)
(* answers is stored and re-aged, the others keep aging.  Only             *)
(* governed_workers of these records is used.                              *)
PullPeers(h) ==
  /\ pc[h] = "idle"
  /\ \E answered \in SUBSET Peers(h) :
       /\ "loss" \in Faults \/ answered = Peers(h)
       /\ view' = [view EXCEPT ![h] =
                     [p \in Peers(h) |-> IF p \in answered THEN GovernedWorkers(p)
                                                           ELSE view[h][p]]]
       /\ age' = [age EXCEPT ![h] =
                    [p \in Peers(h) |-> IF p \in answered THEN "fresh" ELSE age[h][p]]]
  /\ Goto(h, "pulled")
  /\ UNCHANGED <<protocolVars, localVars>>

(* A peer is fresh, then stale, then expired, on the receiver's monotonic  *)
(* clock, until the next record arrives.                                   *)
Aging(h, p) ==
  /\ \/ "loss" \in Faults /\ age[h][p] = "fresh" /\ age' = [age EXCEPT ![h][p] = "stale"]
     \/ "expiry" \in Faults /\ age[h][p] = "stale" /\ age' = [age EXCEPT ![h][p] = "expired"]
  /\ UNCHANGED <<protocolVars, pc, localVars, view>>

(* What the observer can count: every running worker, except that workers  *)
(* of an unresolved reservation may not have written a heartbeat yet.      *)
Observable(h) ==
  IF "lag" \in Faults
  THEN SaturatingSub(running[h], pending[h].count) .. running[h]
  ELSE {running[h]}

(* The burn denominator: own observation plus each peer's last published   *)
(* count, an expired peer or one never heard from counting as zero.        *)
Denominator(h, workers) ==
  workers + SumOver(view[h], {p \in Peers(h) : age[h][p] # "expired" /\ view[h][p] # Unknown})

(* The shares split_account_total may give this host: a growing total adds *)
(* a part of the surplus to what it runs, a shrinking one is re-divided.   *)
Shares(workers, denominator, newTotal) ==
  IF newTotal >= denominator
  THEN workers .. workers + (newTotal - denominator)
  ELSE 0 .. newTotal

(* pending_observed: the observation covers the whole reservation.         *)
PendingObserved(h, workers) ==
  pending[h].count > 0 /\ workers >= pending[h].baseline + pending[h].count

(* An account's observation and decision: count the workers, read the own  *)
(* reservation, derive the shared total and the own share, freeze while a  *)
(* peer is stale, and keep the fleet untouched under the safety hold.      *)
Decide(h) ==
  /\ pc[h] = "pulled"
  /\ \E workers \in Observable(h), raw \in RawTargets, hold \in BOOLEAN :
       LET denominator == Denominator(h, workers)
           newTotal == ApplyStepLimits(raw, denominator, Fleet)
           stalePeer == \E p \in Peers(h) : age[h][p] = "stale"
       IN \E share \in Shares(workers, denominator, newTotal) :
            LET target == IF hold THEN workers
                          ELSE IF stalePeer THEN Min2(share, workers) ELSE share
                gated == target > workers /\ ~stalePeer /\ pending[h].count = 0
            IN /\ seen' = [seen EXCEPT ![h] = workers]
               /\ observed' = [observed EXCEPT ![h] = PendingObserved(h, workers)]
               /\ total' = [total EXCEPT ![h] = newTotal]
               /\ desired' = [desired EXCEPT ![h] =
                                IF gated THEN target ELSE Min2(target, workers)]
               /\ expired' = [expired EXCEPT ![h] = {p \in Peers(h) : age[h][p] = "expired"}]
               /\ Goto(h, IF gated THEN "gate" ELSE IF hold THEN "report" ELSE "actuate")
  /\ UNCHANGED <<protocolVars, peerVars, repull>>

(* Collecting the quota, counting workers or building the own record       *)
(* failed: nothing is actuated.                                            *)
ObservationFails(h) ==
  /\ "observation" \in Faults
  /\ pc[h] = "pulled"
  /\ Goto(h, "failed")
  /\ UNCHANGED <<protocolVars, localVars, peerVars>>

-----------------------------------------------------------------------------
(* gate_launch.  The reservation is published before the re-pull.          *)
Want(h) == Min2(desired[h] - seen[h], StepUp[h])

GatePublish(h) ==
  /\ pc[h] = "gate"
  /\ pending' = [pending EXCEPT ![h] = [count |-> Want(h), baseline |-> seen[h]]]
  /\ Goto(h, "repull")
  /\ UNCHANGED <<running, status, localVars, peerVars>>

(* build_local_record on the peer reads its status file first ...          *)
RepullStatus(h, p) ==
  /\ pc[h] = "repull"
  /\ repull[h][p] = NotRead
  /\ repull' = [repull EXCEPT ![h][p].workers = GovernedWorkers(p)]
  /\ UNCHANGED <<protocolVars, pc, seen, total, desired, observed, expired, peerVars>>

(* ... and its pending file afterwards: the record may be torn.            *)
RepullPending(h, p) ==
  /\ pc[h] = "repull"
  /\ repull[h][p].workers # Unknown /\ repull[h][p].pending = Unknown
  /\ repull' = [repull EXCEPT ![h][p].pending = pending[p].count]
  /\ UNCHANGED <<protocolVars, pc, seen, total, desired, observed, expired, peerVars>>

Answered(h) == {p \in Peers(h) : repull[h][p].pending # Unknown}

PeersCommittedPendingOnly(h) ==  \* variant: forgets governed_workers
  SumOver([p \in Peers(h) |-> repull[h][p].pending], Answered(h))

PeersCommitted(h) ==
  SumOver([p \in Peers(h) |-> repull[h][p].workers + repull[h][p].pending], Answered(h))

(* permitted_launch with no reservation outstanding (the caller's guard).  *)
PermittedUnsaturated(h) ==  \* variant: plain subtraction
  Min2(Want(h), total[h] - seen[h] - PeersCommitted(h))

Permitted(h) ==
  Min2(Want(h), SaturatingSub(SaturatingSub(total[h], seen[h]), PeersCommitted(h)))

(* Every peer that had not expired has answered: admit what the re-pulled  *)
(* total still permits, or withdraw the reservation.                       *)
GateCommit(h) ==
  /\ pc[h] = "repull"
  /\ Peers(h) \ expired[h] \subseteq Answered(h)
  /\ pending' = [pending EXCEPT ![h] =
                   IF Permitted(h) = 0 THEN NoPending
                   ELSE [count |-> Permitted(h), baseline |-> seen[h]]]
  /\ desired' = [desired EXCEPT ![h] = seen[h] + Permitted(h)]
  /\ Goto(h, "actuate")
  /\ UNCHANGED <<running, status, seen, total, observed, expired, repull, peerVars>>

(* A non-expired peer does not answer (or launch capacity is gone): the    *)
(* previous entry, which was none, is restored and the account fails.      *)
GateFails(h) ==
  /\ pc[h] = "repull"
  /\ \/ "loss" \in Faults /\ ~(Peers(h) \ expired[h] \subseteq Answered(h))
     \/ "actuation" \in Faults
  /\ pending' = [pending EXCEPT ![h] = NoPending]
  /\ Goto(h, "failed")
  /\ UNCHANGED <<running, status, localVars, peerVars>>

-----------------------------------------------------------------------------
(* The actuator reconciles to an absolute count, and is not called when    *)
(* the target equals the observation.  With too few seeds it starts fewer. *)
Actuate(h) ==
  /\ pc[h] = "actuate"
  /\ \E reached \in {desired[h]} \cup
                    (IF "short" \in Faults THEN running[h] .. desired[h] ELSE {}) :
       running' = [running EXCEPT ![h] = IF desired[h] = seen[h] THEN @ ELSE reached]
  /\ Goto(h, "report")
  /\ UNCHANGED <<status, pending, localVars, peerVars>>

(* Launches and stops happen one by one; an error leaves any prefix done.  *)
ActuationFails(h) ==
  /\ "actuation" \in Faults
  /\ pc[h] = "actuate"
  /\ desired[h] # seen[h]
  /\ \E reached \in Min2(running[h], desired[h]) .. Max2(running[h], desired[h]) :
       running' = [running EXCEPT ![h] = reached]
  /\ Goto(h, "failed")
  /\ UNCHANGED <<status, pending, localVars, peerVars>>

(* A completed cycle publishes the count it observed at its start.         *)
WriteStatusAndClear(h) ==  \* variant: clears without the observed guard
  /\ pc[h] = "report"
  /\ status' = [status EXCEPT ![h] = seen[h]]
  /\ Goto(h, "clear")
  /\ UNCHANGED <<running, pending, localVars, peerVars>>

WriteStatus(h) ==
  /\ pc[h] = "report"
  /\ status' = [status EXCEPT ![h] = seen[h]]
  /\ IF observed[h] THEN Goto(h, "clear") /\ UNCHANGED localVars ELSE EndCycle(h)
  /\ UNCHANGED <<running, pending, peerVars>>

(* Only after the status file is written may the reservation be cleared.   *)
ClearPending(h) ==
  /\ pc[h] = "clear"
  /\ pending' = [pending EXCEPT ![h] = NoPending]
  /\ EndCycle(h)
  /\ UNCHANGED <<running, status, peerVars>>

(* readiness_for_failure: the failed account's entry has no current_workers. *)
WriteFailure(h) ==
  /\ pc[h] = "failed"
  /\ status' = [status EXCEPT ![h] = Unknown]
  /\ EndCycle(h)
  /\ UNCHANGED <<running, pending, peerVars>>

(* A status write error is only logged; the reservation stays.             *)
StatusWriteFails(h) ==
  /\ "statuswrite" \in Faults
  /\ pc[h] \in {"report", "failed"}
  /\ EndCycle(h)
  /\ UNCHANGED <<protocolVars, peerVars>>

-----------------------------------------------------------------------------
WorkerExits(h) ==
  /\ "exit" \in Faults
  /\ running[h] > 0
  /\ running' = [running EXCEPT ![h] = @ - 1]
  /\ UNCHANGED <<status, pending, pc, localVars, peerVars>>

(* The governor dies anywhere in a cycle and is restarted: workers and     *)
(* files stay, the peer table starts empty.                                *)
Crash(h) ==
  /\ "crash" \in Faults
  /\ EndCycle(h)
  /\ view' = [view EXCEPT ![h] = [p \in Peers(h) |-> Unknown]]
  /\ age' = [age EXCEPT ![h] = [p \in Peers(h) |-> "stale"]]
  /\ UNCHANGED protocolVars

Cycle(h) ==
  \/ PullPeers(h)
  \/ Decide(h)
  \/ GatePublish(h)
  \/ \E p \in Peers(h) : RepullStatus(h, p) \/ RepullPending(h, p)
  \/ GateCommit(h)
  \/ Actuate(h)
  \/ WriteStatus(h)
  \/ ClearPending(h)
  \/ WriteFailure(h)

Fault(h) ==
  \/ ObservationFails(h)
  \/ GateFails(h)
  \/ ActuationFails(h)
  \/ StatusWriteFails(h)
  \/ WorkerExits(h)
  \/ Crash(h)
  \/ \E p \in Peers(h) : Aging(h, p)

Next == \E h \in Hosts : Cycle(h) \/ Fault(h)

Spec == Init /\ [][Next]_vars

(* The run loop of a live governor keeps taking its next step.             *)
FairSpec == Spec /\ \A h \in Hosts : WF_vars(Cycle(h))

-----------------------------------------------------------------------------
Count == Nat \cup {Unknown}

TypeOK ==
  /\ running \in [Hosts -> Nat]
  /\ status \in [Hosts -> Count]
  /\ pending \in [Hosts -> [count : Nat, baseline : Nat]]
  /\ pc \in [Hosts -> {"idle", "pulled", "gate", "repull", "actuate",
                       "report", "clear", "failed"}]
  /\ seen \in [Hosts -> Nat]
  /\ total \in [Hosts -> Nat]
  /\ desired \in [Hosts -> Nat]
  /\ observed \in [Hosts -> BOOLEAN]
  /\ expired \in [Hosts -> SUBSET Hosts]
  /\ DOMAIN view = Hosts /\ DOMAIN age = Hosts /\ DOMAIN repull = Hosts
  /\ \A h \in Hosts :
       /\ view[h] \in [Peers(h) -> Count]
       /\ age[h] \in [Peers(h) -> {"fresh", "stale", "expired"}]
       /\ repull[h] \in [Peers(h) -> [workers : Count, pending : Count]]

(* Whatever fails, crashes or exits, and wherever in its cycle a host is:  *)
(* while its status file holds a count, the count and the reservation its  *)
(* peers can read together cover every worker it runs.                     *)
PublishedCoversRunning ==
  \A h \in Hosts :
    status[h] # Unknown => running[h] <= status[h] + pending[h].count

(* plan 28.8 and 28.16: the workers of all hosts together never exceed the *)
(* largest account total by more than the summed step limits.  The code    *)
(* does not keep this while a failed account publishes no count.           *)
OvershootBound == Total(running) <= Fleet.max_workers + Total(StepUp)

(* The gate's real bound: a torn peer record hides at most one launch of   *)
(* each peer, so the excess is the steps of all hosts but one.             *)
OvershootByPeerSteps ==
  \E h \in Hosts :
    Total(running) <= Fleet.max_workers + (Total(StepUp) - StepUp[h])

(* needle.rs 404: a launch that started too few workers is completed by a  *)
(* later cycle.  That needs the reservation to be resolved, because a      *)
(* cycle that finds one outstanding never launches.  The code does not     *)
(* keep this: only an observation of the whole launch clears it.           *)
ReservationResolves ==
  \A h \in Hosts : pending[h].count > 0 ~> pending[h].count = 0
=============================================================================
