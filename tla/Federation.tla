----------------------------- MODULE Federation -----------------------------
(***************************************************************************)
(* The governors of several hosts share one account without a leader: each *)
(* keeps a table of what its peers last published, derives one total and   *)
(* one split from it, and moves its own host to its own share.  This       *)
(* module is the peer table, the shared total, the split and the freeze;   *)
(* the reservations of the launch gate and its torn records are LaunchGate's, *)
(* so here a gate reads what its peers run and launches in one step.       *)
(*                                                                         *)
(* A record is the peer's workers, its ready demand, and its kind: "same"  *)
(* account, an "other" account (another fingerprint, or none by that       *)
(* name), or the same account "unmeasured" (no host ceiling published);    *)
(* the counts of the last two decide nothing and are left out.             *)
(* Ages are ticks on the receiver's monotonic clock.  A pull that fails,   *)
(* is malformed, names another host or is too far ahead of the wall clock  *)
(* changes nothing and is no step.                                         *)
(***************************************************************************)
EXTENDS Distribution

CONSTANTS
  Hosts,       \* naturals: the host ids in their order
  Fleet,       \* the account's fleet range and steps
  Ceiling,     \* the worker ceiling of each host
  StepUp,      \* local_step_limit of each host
  Demands,     \* the ready demands a host may have
  Kinds,       \* the kinds of records a peer may publish before calm
  Useds,       \* the used fractions a sample may report
  Disagreement,\* SAMPLE_DISAGREEMENT_FRACTION
  RawTarget,   \* the controller's target for each used fraction
  StaleAfter, Expiry  \* peer_stale_after and peer_expiry in ticks

Peers(h) == Hosts \ {h}

ASSUME FederationAssumption ==
  /\ IsFiniteSet(Hosts) /\ Hosts # {} /\ Hosts \subseteq Nat
  /\ Fleet \in Fleets /\ Ceiling \in [Hosts -> Nat] /\ StepUp \in [Hosts -> Nat]
  /\ Demands \subseteq Nat /\ Kinds \subseteq {"same", "other", "unmeasured"}
  /\ RawTarget \in [Useds -> Nat] /\ Useds \subseteq Nat /\ IsFiniteSet(Useds)
  /\ Disagreement \in Nat
  /\ StaleAfter \in Nat \ {0} /\ Expiry \in Nat
  /\ Expiry > StaleAfter + 1  \* a tick is shorter than the time between the two

VARIABLES
  workers,  \* the governed workers of each host
  demand,   \* the ready demand of each host
  record,   \* record[h][p]: the last record h accepted from p
  age,      \* age[h][p]: ticks since then, or since h started
  pulled,   \* the hosts that have pulled their peers and not yet decided
  level     \* the used fraction everyone reads once calm; Unsettled before

vars == <<workers, demand, record, age, pulled, level>>

(* Calm: records arrive in time, and the quota and the work stand still.   *)
Unsettled == -1
calm == level # Unsettled

NoRecord == [workers |-> 0, demand |-> 0, kind |-> "none"]
EmptyTable(h) == [p \in Peers(h) |-> NoRecord]

Init ==
  /\ workers \in [Hosts -> 0 .. Fleet.max_workers]
  /\ \A h \in Hosts : workers[h] <= Ceiling[h]
  /\ demand \in [Hosts -> Demands]
  /\ record = [h \in Hosts |-> EmptyTable(h)]
  /\ age = [h \in Hosts |-> [p \in Peers(h) |-> 0]]
  /\ pulled = {} /\ level = Unsettled

-----------------------------------------------------------------------------
(* PeerTable::freshness.                                                   *)
Freshness(h, p) ==
  IF age[h][p] >= Expiry THEN "expired"
  ELSE IF record[h][p] = NoRecord \/ age[h][p] > StaleAfter THEN "stale" ELSE "fresh"

HeardPeerStale(h) ==  \* variant: a peer never heard from does not freeze
  \E p \in Peers(h) : record[h][p] # NoRecord /\ Freshness(h, p) = "stale"

(* PeerTable::any_peer_stale.                                              *)
AnyPeerStale(h) == \E p \in Peers(h) : Freshness(h, p) = "stale"

Published(p) == [workers |-> workers[p], demand |-> demand[p], kind |-> "same"]

(* The pulls of a cycle and ingest_cycle: PeerTable::ingest of what each   *)
(* peer that answers published in build_local_record.                      *)
PullPeers(h) ==
  /\ h \notin pulled
  /\ \E answered \in IF calm THEN {Peers(h)} ELSE SUBSET Peers(h) :
     \E kind \in [answered -> IF calm THEN {"same"} ELSE Kinds] :
       /\ record' = [record EXCEPT ![h] = [p \in Peers(h) |->
                        IF p \notin answered THEN @[p]
                        ELSE IF kind[p] = "same" THEN Published(p)
                        ELSE [NoRecord EXCEPT !.kind = kind[p]]]]
       /\ age' = [age EXCEPT ![h] = [p \in Peers(h) |-> IF p \in answered THEN 0 ELSE @[p]]]
  /\ pulled' = pulled \cup {h}
  /\ UNCHANGED <<workers, demand, level>>

-----------------------------------------------------------------------------
(* freshest_used_fraction: the freshest sample (the larger fraction on a   *)
(* tie), unless some held sample is higher by more than the disagreement.  *)
HeldFraction(samples) ==
  LET freshest == {s \in samples : \A t \in samples : s.age <= t.age}
      base == Max({s.used : s \in freshest})
      largest == Max({s.used : s \in samples})
  IN  IF largest - base > Disagreement THEN largest ELSE base

(* The peers whose record shares the account total.                        *)
Sharing(h) == {p \in Peers(h) : record[h][p].kind \in {"same", "unmeasured"}}

(* peer_account_snapshot: what a peer published, and zeros once expired.   *)
Contribution(h, p) ==
  IF Freshness(h, p) = "expired" THEN NoRecord ELSE record[h][p]

(* shared_decision: the hosts as this instance sees them.                  *)
HostEntry(n, ceiling, ready) == [workers |-> n, ceiling |-> ceiling, demand |-> ready]
SeenHosts(h) ==
  [g \in {h} \cup Sharing(h) |->
     IF g = h THEN HostEntry(workers[h], Ceiling[h], demand[h])
     ELSE LET seen == Contribution(h, g)
          IN HostEntry(seen.workers,
                       IF record[h][g].kind = "unmeasured" THEN Fleet.max_workers
                                                           ELSE Ceiling[g],
                       seen.demand)]

Denominator(seen) == SumOver([g \in DOMAIN seen |-> seen[g].workers], DOMAIN seen)

(* shared_account_total: the controller on the held samples; with none the *)
(* combined fleet is held where it is.                                     *)
SharedTotal(samples, running) ==
  ApplyStepLimits(IF samples = {} THEN running ELSE RawTarget[HeldFraction(samples)],
                  running, Fleet)

(* The samples this instance may hold: its own, and one of every sharing   *)
(* peer that has not expired, each with any fraction, newer or older.      *)
SampleSets(h) ==
  IF calm THEN {{[age |-> 0, used |-> level]}}
  ELSE {s \in SUBSET [age : {0, 1}, used : Useds] :
          Cardinality(s) <= 1 + Cardinality({p \in Sharing(h) : Freshness(h, p) # "expired"})}

(* peer_capacity_unknown, the safety hold modelled here.                   *)
CapacityUnknown(h) ==
  \E p \in Peers(h) : Freshness(h, p) # "expired" /\ record[h][p].kind = "unmeasured"

(* The split of every total over every table of hosts, computed once.      *)
Entries == [workers : 0 .. Fleet.max_workers,
            ceiling : {Ceiling[h] : h \in Hosts} \cup {Fleet.max_workers},
            demand : Demands \cup {0}]
Split ==
  [total \in 0 .. Fleet.max_workers |->
     [seen \in UNION {[S -> Entries] : S \in (SUBSET Hosts) \ {{}}} |->
        [rounded \in BOOLEAN |-> SplitTotal(total, seen, IF rounded THEN DOMAIN seen ELSE {})]]]

(* The share of the split, the freeze while a peer is stale, and the hold. *)
Target(h, total, seen, rounded) ==
  LET share == Split[total][seen][rounded][h]
  IN  IF CapacityUnknown(h) THEN workers[h]
      ELSE IF AnyPeerStale(h) THEN Min2(share, workers[h]) ELSE share

(* The peers whose counts a gate may meet when it pulls again: every       *)
(* sharing peer that has not expired, and any others that answer.          *)
Repulled(h) ==
  LET due == {p \in Sharing(h) : Freshness(h, p) # "expired"}
      maybe == {p \in Peers(h) : record[h][p].kind # "other"} \ due
  IN  IF calm THEN {due} ELSE {due \cup more : more \in SUBSET maybe}

Ungated(h, total, target, answered) ==  \* variant: launches without pulling again
  IF target <= workers[h] THEN target
  ELSE workers[h] + Min2(target - workers[h], StepUp[h])

(* gate_federated_launch: one step at most, and only into the room that    *)
(* the peers' counts, read again, leave under the total.                   *)
Gated(h, total, target, answered) ==
  IF target <= workers[h] THEN target
  ELSE workers[h] + Min2(Min2(target - workers[h], StepUp[h]),
                         SaturatingSub(SaturatingSub(total, workers[h]),
                                       SumOver(workers, answered)))

(* The rest of an account's cycle on one host.                             *)
Decide(h) ==
  /\ h \in pulled /\ pulled' = pulled \ {h}
  /\ LET seen == SeenHosts(h)
         totals == {SharedTotal(s, Denominator(seen)) : s \in SampleSets(h)}
     IN  \E total \in totals, rounded \in BOOLEAN, answered \in Repulled(h) :
           workers' = [workers EXCEPT
                         ![h] = Gated(h, total, Target(h, total, seen, rounded), answered)]
  /\ UNCHANGED <<demand, record, age, level>>

(* Collecting, observing, pulling again or actuating failed.               *)
CycleFails(h) ==
  /\ ~calm /\ h \in pulled
  /\ pulled' = pulled \ {h}
  /\ UNCHANGED <<workers, demand, record, age, level>>

-----------------------------------------------------------------------------
(* Time: once calm, a host polls often enough to keep its peers fresh.     *)
Tick ==
  /\ \E h \in Hosts : \E p \in Peers(h) : age[h][p] < Expiry
  /\ calm => \A h \in Hosts : \A p \in Peers(h) : age[h][p] < StaleAfter
  /\ age' = [h \in Hosts |-> [p \in Peers(h) |-> Min2(age[h][p] + 1, Expiry)]]
  /\ UNCHANGED <<workers, demand, record, pulled, level>>

Restart(h) ==
  /\ ~calm
  /\ record' = [record EXCEPT ![h] = EmptyTable(h)]
  /\ age' = [age EXCEPT ![h] = [p \in Peers(h) |-> 0]]
  /\ pulled' = pulled \ {h}
  /\ UNCHANGED <<workers, demand, level>>

WorkerExits(h) ==
  /\ ~calm /\ workers[h] > 0
  /\ workers' = [workers EXCEPT ![h] = @ - 1]
  /\ UNCHANGED <<demand, record, age, pulled, level>>

BecomeCalm ==
  /\ ~calm /\ level' \in Useds
  /\ UNCHANGED <<workers, demand, record, age, pulled>>

Next ==
  \/ Tick \/ BecomeCalm
  \/ \E h \in Hosts : PullPeers(h) \/ Decide(h) \/ CycleFails(h) \/ Restart(h) \/ WorkerExits(h)

Spec == Init /\ [][Next]_vars

-----------------------------------------------------------------------------
(* The policy of PeerPolicy, with the classification as its view.          *)
Policy == INSTANCE PeerPolicy WITH
            view <- [h \in Hosts |-> [p \in Peers(h) |-> Freshness(h, p)]]

(* Federation implements PeerPolicy: whatever is lost, late or restarted,  *)
(* a peer passes through the frozen state before it stops counting, and no *)
(* host grows while it has not heard a live peer (plan 28.7).              *)
ImplementsPolicy == Policy!Spec

(* Spare quota never launches a worker into work that does not exist, and  *)
(* no host passes its ceiling, whichever way the total moves.              *)
NoIdleGrowth ==
  [][\A h \in Hosts : workers'[h] > workers[h] => demand[h] > 0 /\ workers'[h] <= Ceiling[h]]_vars

(* Hosts that see each other as they are derive shares that add up: each   *)
(* computes its own from its own side, and together they stay within the   *)
(* total (split_account_total; rounding may differ from host to host).     *)
SeesAsIs(h) ==
  \A p \in Peers(h) :
    Freshness(h, p) = "fresh" /\ record[h][p] = Published(p)
SharesAddUp ==
  (\A h \in Hosts : SeesAsIs(h)) =>
    \A total \in 0 .. Fleet.max_workers :
      SumOver([h \in Hosts |-> Split[total][SeenHosts(h)][FALSE][h]], Hosts) <= total

(* Once records arrive in time and the quota and the work stand still, the *)
(* hosts stop moving workers about: their independent decisions agree.     *)
Settles == <>calm => <>[][FALSE]_workers
=============================================================================
