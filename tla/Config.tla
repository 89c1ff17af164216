-------------------------------- MODULE Config --------------------------------
(***************************************************************************)
(* What Config::load accepts and what it makes of it: the validation rules *)
(* as predicates over configuration records, the per-host prefixes applied *)
(* after validation, and the policy a window resolves to.  No variables.   *)
(*                                                                         *)
(* An optional value is a set with at most one element.  A fraction is a   *)
(* number of parts of Unit, and -1 if it is negative or not finite.  An    *)
(* argument of a command is a text, in which {desired_workers} is one      *)
(* character.  The path of a source stands for the path, credentials or    *)
(* executable its type has; the file names of the federation are left out. *)
(***************************************************************************)
EXTENDS Identity, FiniteSetsExt

CONSTANTS
  Unit,         \* the fraction 1.0
  MaxSeconds,   \* i64::MAX
  Home          \* the home directory

None == {}
Sole(S) == CHOOSE x \in S : TRUE
OrElse(S, default) == IF S = None THEN default ELSE S
Complement(S) == {Unit - x : x \in S}

-----------------------------------------------------------------------------
(* The blocks of a configuration, with what is filled in for the keys that *)
(* a file leaves out.                                                      *)

Percent(n) == (n * Unit) \div 100

DefaultSaturation ==
  [step_workers |-> 1, dwell_seconds |-> 600, minimum_window_seconds |-> 300,
   minimum_attempts |-> 30, plateau_fraction |-> Percent(5),
   concurrency_fraction |-> Percent(10), reprobe_seconds |-> 3600]

DefaultBackpressure ==
  [hold_above |-> Percent(20), step_down_above |-> Percent(50), recover_below |-> Percent(10),
   quiet_cycles |-> 3, signal_loss_release_seconds |-> 1800]

DefaultBankedResets ==
  [enabled |-> FALSE, full_speed |-> FALSE, minimum_pace_multiplier |-> 2 * Unit,
   redeem_at_utilization |-> Unit, deadline_safety_seconds |-> 6 * 60 * 60]

(* The policy of a window that the file does not name.                     *)
NoOverride ==
  [burn_rate_window_seconds |-> None, enabled |-> None, target_utilization |-> None,
   reserve_fraction |-> None, strategy |-> None]

UtilizationBlock(target, reserve) ==
  [target_utilization |-> target, reserve_fraction |-> reserve, strategy |-> "linear_to_reset",
   stale_after_seconds |-> 900, stale_behavior |-> "hold", minimum_sample_seconds |-> 300,
   backpressure |-> None, zai_saturation |-> None, windows |-> <<>>]

NeedleStatus(agent, heartbeat_dir, prefix) ==
  [type |-> "needle_status", agent |-> agent, heartbeat_dir |-> heartbeat_dir,
   stale_after_seconds |-> 60, identifier_prefix |-> prefix]

NeedleRun(repo, adapter, prefix) ==
  [type |-> "needle_run", repo |-> repo, adapter |-> adapter, identifier_prefix |-> prefix,
   seed_demand_state |-> None, seed_heartbeats |-> None]

NoActuator == [type |-> "none"]

HostBlock(observer, actuator) ==
  [max_workers |-> None, max_scale_up_per_cycle |-> None, max_scale_down_per_cycle |-> None,
   resource_reserve |-> None, resource_source |-> None,
   observer |-> observer, actuator |-> actuator]

FleetBlock(max_workers, observer, actuator, hosts) ==
  [min_workers |-> 0, max_workers |-> max_workers, bootstrap_workers |-> 1,
   max_scale_up_per_cycle |-> 1, max_scale_down_per_cycle |-> 1,
   observer |-> observer, actuator |-> actuator, observer_reconciliation |-> "strict",
   hosts |-> hosts, takeover |-> <<>>, takeover_helper |-> None]

AccountBlock(source, fleet, utilization) ==
  [source |-> source, fleet |-> fleet, utilization |-> utilization,
   banked_resets |-> DefaultBankedResets]

PeerBlock(host_id) == [host_id |-> host_id, argv |-> None]

FederationBlock(host_id, peers) ==
  [host_id |-> host_id, account_identities |-> <<>>, peers |-> peers,
   peer_stale_after_seconds |-> 120, peer_expiry_seconds |-> 1800,
   primary |-> TRUE, repo_owners |-> <<>>]

ConfigBlock(accounts, federation) ==
  [version |-> 1, poll_interval_seconds |-> 300, accounts |-> accounts, federation |-> federation]

-----------------------------------------------------------------------------
(* Durations, commands, fractions.                                         *)

validate_duration(seconds) == seconds \in 1 .. MaxSeconds

validate_argv(argv, require_placeholder) ==
  /\ argv # <<>> /\ <<>> \notin Range(argv)
  /\ require_placeholder => \E arg \in Range(argv) : "{desired_workers}" \in Range(arg)

validate_target(target, reserve, required) ==
  /\ target = None \/ reserve = None
  /\ required => target \cup reserve # None
  /\ target \subseteq 1 .. Unit
  /\ reserve \subseteq 0 .. Unit - 1

validate_backpressure(policy) ==
  /\ {policy.recover_below, policy.hold_above, policy.step_down_above} \subseteq 0 .. Unit
  /\ policy.recover_below < policy.hold_above
  /\ policy.hold_above < policy.step_down_above
  /\ policy.quiet_cycles >= 1
  /\ validate_duration(policy.signal_loss_release_seconds)

ValidSaturation(policy) ==
  /\ policy.step_workers > 0 /\ policy.minimum_attempts > 0
  /\ \A s \in {policy.dwell_seconds, policy.minimum_window_seconds, policy.reprobe_seconds} :
       validate_duration(s)
  /\ {policy.plateau_fraction, policy.concurrency_fraction} \subseteq 0 .. Unit - 1

validate_banked_resets(policy) ==
  /\ policy.minimum_pace_multiplier >= Unit
  /\ policy.redeem_at_utilization \in 1 .. Unit
  /\ policy.deadline_safety_seconds <= MaxSeconds

ValidWindow(policy, minimum_sample) ==
  /\ policy.burn_rate_window_seconds \subseteq minimum_sample .. MaxSeconds
  /\ validate_target(policy.target_utilization, policy.reserve_fraction, FALSE)

ValidUtilization(u) ==
  /\ validate_duration(u.stale_after_seconds)
  /\ validate_duration(u.minimum_sample_seconds)
  /\ validate_target(u.target_utilization, u.reserve_fraction, TRUE)
  /\ \A policy \in u.zai_saturation : ValidSaturation(policy)
  /\ \A policy \in u.backpressure : validate_backpressure(policy)
  /\ \A w \in DOMAIN u.windows : ValidWindow(u.windows[w], u.minimum_sample_seconds)

(* The policy of a window: none when it is disabled, and otherwise its own *)
(* target or reserve before the account's.  The code panics where no       *)
(* target is configured at all.                                            *)
Targets(u, own) ==
  OrElse(own.target_utilization,
    OrElse(Complement(own.reserve_fraction),
      OrElse(u.target_utilization, Complement(u.reserve_fraction))))

policy_for(u, id) ==
  LET own == IF id \in DOMAIN u.windows THEN u.windows[id] ELSE NoOverride
  IN  IF own.enabled = {FALSE} THEN None
      ELSE {[target |-> Sole(Targets(u, own)),
             burn_rate_window_seconds |-> own.burn_rate_window_seconds,
             strategy |-> Sole(OrElse(own.strategy, {u.strategy}))]}

-----------------------------------------------------------------------------
(* Sources and fleets.                                                     *)

validate_source(source) ==
  /\ source.type = "command" => validate_argv(source.argv, FALSE)
  /\ source.type \in {"normalized_http", "anthropic_oauth", "codex_app_server"} =>
       validate_duration(source.timeout_seconds)

ResourceSourceValid(source) ==
  /\ source.type = "command" => validate_argv(source.argv, FALSE)
  /\ source.type = "normalized_http" => validate_duration(source.timeout_seconds)

validate_needle_status(observer) ==
  /\ ValidName(observer.agent)
  /\ observer.heartbeat_dir # <<>>
  /\ validate_duration(observer.stale_after_seconds)

validate_needle_run(actuator) ==
  actuator.repo # <<>> /\ ValidName(actuator.adapter)

validate_needle_seeds(actuator) ==
  /\ (actuator.seed_demand_state = None) = (actuator.seed_heartbeats = None)
  /\ <<>> \notin actuator.seed_demand_state \cup actuator.seed_heartbeats

ValidObserver(observer) ==
  /\ observer.type = "command" => validate_argv(observer.argv, FALSE)
  /\ observer.type = "needle_status" => validate_needle_status(observer)

ValidActuator(actuator) ==
  /\ actuator.type = "command" => validate_argv(actuator.argv, TRUE)
  /\ actuator.type = "needle_run" =>
       validate_needle_run(actuator) /\ validate_needle_seeds(actuator)

(* The identifier_prefix of an observer or actuator that can have one.     *)
PrefixOf(part) == IF part.type \in {"needle_status", "needle_run"} THEN part.identifier_prefix ELSE None

(* Unlike the account's own fleet, a host may give its observer and its    *)
(* actuator different prefixes of any characters.                          *)
validate_host(host, name, account_max_workers) ==
  /\ name # <<>>
  /\ \A max \in host.max_workers : max <= account_max_workers
  /\ host.resource_source # None => host.resource_reserve # None
  /\ ValidObserver(host.observer)
  /\ ValidActuator(host.actuator)
  /\ \A source \in host.resource_source : ResourceSourceValid(source)

validate_fleet(fleet) ==
  /\ (fleet.observer = None) # (fleet.hosts = None)
  /\ fleet.hosts # None => fleet.actuator.type = "none"
  /\ ValidActuator(fleet.actuator)
  /\ validate_identifier_prefix(PrefixOf(fleet.actuator))
  /\ \A observer \in fleet.observer :
       /\ ValidObserver(observer)
       /\ validate_identifier_prefix(PrefixOf(observer))
       /\ fleet.actuator.type = "needle_run" /\ observer.type = "needle_status" =>
            PrefixOf(observer) = PrefixOf(fleet.actuator)
  /\ \A hosts \in fleet.hosts :
       /\ DOMAIN hosts # {}
       /\ \A name \in DOMAIN hosts : validate_host(hosts[name], name, fleet.max_workers)

(* A unit is the name of the worker it runs.                               *)
ValidTakeoverTarget(target) ==
  /\ validate_takeover_identity(target.worker_id)
  /\ validate_takeover_identity(target.agent)
  /\ target.unit \subseteq {target.worker_id}

validate_takeover(fleet) ==
  IF fleet.takeover = <<>> THEN fleet.takeover_helper = None
  ELSE /\ fleet.hosts = None
       /\ fleet.actuator.type = "needle_run" /\ PrefixOf(fleet.actuator) # None
       /\ \E observer \in fleet.observer :
            observer.type = "needle_status" /\ PrefixOf(observer) = PrefixOf(fleet.actuator)
       /\ \E helper \in fleet.takeover_helper : validate_argv(helper, FALSE)
       /\ \A i \in DOMAIN fleet.takeover : ValidTakeoverTarget(fleet.takeover[i])

(* Every worker belongs to exactly one pool, and is listed there once.     *)
TakeoverWorkersDiffer(accounts) ==
  LET listed == {<<name, i>> : name \in DOMAIN accounts,
                               i \in UNION {DOMAIN accounts[n].fleet.takeover : n \in DOMAIN accounts}}
      placed == {at \in listed : at[2] \in DOMAIN accounts[at[1]].fleet.takeover}
      worker(at) == accounts[at[1]].fleet.takeover[at[2]].worker_id
  IN  \A a, b \in placed : worker(a) = worker(b) => a = b

ValidAccount(account) ==
  /\ account.fleet.max_workers >= account.fleet.min_workers
  /\ account.fleet.bootstrap_workers <= account.fleet.max_workers
  /\ ValidUtilization(account.utilization)
  /\ validate_source(account.source)
  /\ validate_fleet(account.fleet)
  /\ validate_takeover(account.fleet)
  /\ validate_banked_resets(account.banked_resets)

-----------------------------------------------------------------------------
(* Federation.                                                             *)

HostIds(federation) == {federation.host_id} \cup {p.host_id : p \in Range(federation.peers)}

(* The observer and the actuator of the account on a host.                 *)
LocalParts(fleet, host_id) ==
  IF fleet.hosts = None THEN fleet.observer \cup {fleet.actuator}
  ELSE LET hosts == Sole(fleet.hosts)
       IN  IF host_id \in DOMAIN hosts THEN {hosts[host_id].observer, hosts[host_id].actuator} ELSE {}

(* federation.rs identifier_prefix: the actuator's before the observer's.  *)
LocalPrefix(fleet, host_id) ==
  LET of(type) == UNION {PrefixOf(part) : part \in {x \in LocalParts(fleet, host_id) : x.type = type}}
  IN  OrElse(of("needle_run"), of("needle_status"))

EffectivePrefixes(federation, fleet) ==
  {effective_prefix(p, federation.host_id, federation.primary) : p \in LocalPrefix(fleet, federation.host_id)}

(* A host that an account's map leaves out may still run the account, so   *)
(* it counts with the account's own step.                                  *)
step_up_bound(federation, fleet) ==
  LET hosts == IF fleet.hosts = None THEN <<>> ELSE Sole(fleet.hosts)
      own(h) == IF h \in DOMAIN hosts THEN hosts[h].max_scale_up_per_cycle ELSE None
      step(h) == Sole(OrElse(own(h), {fleet.max_scale_up_per_cycle}))
  IN  MapThenSumSet(step, HostIds(federation) \cup DOMAIN hosts)

ValidPeers(federation) ==
  /\ \A i \in DOMAIN federation.peers :
       LET peer == federation.peers[i]
       IN  /\ validate_host_id(peer.host_id)
           /\ peer.host_id # federation.host_id
           /\ \A j \in DOMAIN federation.peers : federation.peers[j].host_id = peer.host_id => i = j
           /\ \A argv \in peer.argv : validate_argv(argv, FALSE)

(* Every local pool must be tellable from a peer's, and from each other.   *)
ValidPrefixes(federation, accounts) ==
  /\ \A name \in DOMAIN accounts :
       LET fleet == accounts[name].fleet
           parts == LocalParts(fleet, federation.host_id)
       IN  /\ fleet.hosts # None => parts # {}
           /\ \A part \in parts :
                /\ part.type \in {"needle_status", "needle_run"} => PrefixOf(part) # None
                /\ ~federation.primary =>
                     validate_identifier_prefix(
                       {effective_prefix(p, federation.host_id, FALSE) : p \in PrefixOf(part)})
  /\ \A m, n \in DOMAIN accounts : m # n =>
       EffectivePrefixes(federation, accounts[m].fleet)
         \cap EffectivePrefixes(federation, accounts[n].fleet) = {}

validate_federation(federation, accounts) ==
  /\ validate_host_id(federation.host_id)
  /\ \A origin \in DOMAIN federation.repo_owners :
       origin # <<>> /\ federation.repo_owners[origin] \in HostIds(federation)
  /\ DOMAIN federation.account_identities \subseteq DOMAIN accounts
  /\ <<>> \notin Range(federation.account_identities)
  /\ ValidPeers(federation)
  /\ federation.peers # <<>> =>
       /\ ValidPrefixes(federation, accounts)
       /\ \A name \in DOMAIN accounts :
            step_up_bound(federation, accounts[name].fleet) <= accounts[name].fleet.max_workers
  /\ federation.peer_stale_after_seconds > 0
  /\ federation.peer_expiry_seconds > federation.peer_stale_after_seconds

validate(config) ==
  /\ config.version = 1
  /\ DOMAIN config.accounts # {}
  /\ validate_duration(config.poll_interval_seconds)
  /\ \A name \in DOMAIN config.accounts : ValidAccount(config.accounts[name])
  /\ TakeoverWorkersDiffer(config.accounts)
  /\ \A federation \in config.federation : validate_federation(federation, config.accounts)

-----------------------------------------------------------------------------
(* Loading: paths are expanded before the validation.  Prefixes are        *)
(* rewritten after it, and only on a host that is not the primary of a     *)
(* federation with peers.                                                  *)

expand_tilde(path) ==
  IF path = <<"~">> \/ IsPrefix(<<"~", "/">>, path) THEN Home \o Tail(path) ELSE path

ExpandSource(source) ==
  IF source.type \in {"normalized_file", "anthropic_oauth", "codex_app_server"}
  THEN [source EXCEPT !.path = expand_tilde(@)] ELSE source

ExpandPart(part) ==
  CASE part.type \in {"file", "target_file"} -> [part EXCEPT !.path = expand_tilde(@)]
    [] part.type = "needle_status" -> [part EXCEPT !.heartbeat_dir = expand_tilde(@)]
    [] part.type = "needle_run" ->
         [part EXCEPT !.repo = expand_tilde(@),
                      !.seed_demand_state = {expand_tilde(p) : p \in @},
                      !.seed_heartbeats = {expand_tilde(p) : p \in @}]
    [] OTHER -> part

ExpandHost(host) ==
  [host EXCEPT !.observer = ExpandPart(@), !.actuator = ExpandPart(@),
               !.resource_source =
                 {IF r.type = "normalized_file" THEN ExpandSource(r) ELSE r : r \in @}]

ExpandFleet(fleet) ==
  [fleet EXCEPT !.observer = {ExpandPart(o) : o \in @}, !.actuator = ExpandPart(@),
                !.hosts = {[name \in DOMAIN hosts |-> ExpandHost(hosts[name])] : hosts \in @}]

Expand(config) ==
  [config EXCEPT !.accounts =
     [name \in DOMAIN @ |-> [@[name] EXCEPT !.source = ExpandSource(@), !.fleet = ExpandFleet(@)]]]

rewrite_prefix(part, host_id) ==
  IF PrefixOf(part) = None THEN part
  ELSE [part EXCEPT !.identifier_prefix = {effective_prefix(Sole(@), host_id, FALSE)}]

RewriteFleet(fleet, host_id) ==
  IF fleet.hosts = None
  THEN [fleet EXCEPT !.observer = {rewrite_prefix(o, host_id) : o \in @},
                     !.actuator = rewrite_prefix(@, host_id)]
  ELSE LET hosts == Sole(fleet.hosts)
           rewritten(name) ==
             IF name # host_id THEN hosts[name]
             ELSE [hosts[name] EXCEPT !.observer = rewrite_prefix(@, host_id),
                                      !.actuator = rewrite_prefix(@, host_id)]
       IN  [fleet EXCEPT !.hosts = {[name \in DOMAIN hosts |-> rewritten(name)]}]

apply_federation_prefixes(config) ==
  IF \E f \in config.federation : ~f.primary /\ f.peers # <<>>
  THEN LET host_id == Sole(config.federation).host_id
       IN  [config EXCEPT !.accounts =
              [name \in DOMAIN @ |-> [@[name] EXCEPT !.fleet = RewriteFleet(@, host_id)]]]
  ELSE config

(* The configuration the program runs with, or none.                       *)
load(config) ==
  LET expanded == Expand(config)
  IN  IF validate(expanded) THEN {apply_federation_prefixes(expanded)} ELSE None
=============================================================================
