------------------------------ MODULE Adapters ------------------------------
(***************************************************************************)
(* What a fleet's observers make of the files and commands they read, and  *)
(* when and with what its actuators are invoked.  A result is a set: empty *)
(* where the code returns an error.  No variables; the world an adapter    *)
(* looks at is an argument, with the files by path, the outputs of the     *)
(* commands by argv, and the heartbeat directories by path.                *)
(*                                                                         *)
(* A printed count is its form, its number and its size.  A heartbeat file *)
(* is its name without .json, what it says, and its age in seconds, below  *)
(* zero when it is dated in the future.                                    *)
(***************************************************************************)
EXTENDS Identity, FiniteSetsExt

CONSTANTS
  MaxCount,        \* u32::MAX
  MaxBytes,        \* MAX_OBSERVER_BYTES
  SeedStaleAfter   \* SEED_STALE_AFTER_SECONDS

-----------------------------------------------------------------------------
(* Reading counts.                                                         *)
Text(form, count, size) == [form |-> form, count |-> count, size |-> size]

read_bounded(text) == {t \in {text} : t.size <= MaxBytes}

(* An integer, or an object with current_workers; nothing after it.        *)
parse_worker_count(text) ==
  {t.count : t \in {u \in read_bounded(text) :
                      u.form \in {"integer", "object"} /\ u.count \in 0 .. MaxCount}}

(* Every file under the agent's name is opened before its worker is known, *)
(* so one that cannot be parsed fails the count, whoever wrote it.         *)
Opened(dir, agent) == {h \in dir : IsStrictPrefix(agent \o Separator, h.name)}
Own(h, agent) == h.qualified_id = agent \o Separator \o h.worker_id /\ h.qualified_id = h.name

count_needle_heartbeats(dir, agent, prefix, takeover, stale_after) ==
  LET fresh == {h \in Opened(dir, agent) : Own(h, agent) /\ h.age <= stale_after}
      owned == {h \in fresh : \A p \in prefix : matches_worker_prefix(p, h.worker_id)}
      listed == {h \in fresh \ owned : h.worker_id \in takeover}
  IN  IF \E h \in Opened(dir, agent) : ~h.parses \/ h.size > MaxBytes THEN {}
      ELSE {[owned |-> Cardinality(owned), takeover |-> Cardinality(listed),
             unowned |-> Cardinality(fresh \ (owned \cup listed))]}

Counts(observer, takeover, world) ==
  count_needle_heartbeats(world.heartbeats[observer.heartbeat_dir], observer.agent,
                          observer.identifier_prefix, takeover, observer.stale_after_seconds)

(* observer_for and the current_workers of the four observers.             *)
Observed(observer, takeover, world) ==
  CASE observer.type = "static" -> {observer.workers}
    [] observer.type = "file" ->
         UNION {parse_worker_count(text) : text \in world.files[observer.path]}
    [] observer.type = "command" ->
         UNION {parse_worker_count(text) : text \in world.outputs[observer.argv]}
    [] observer.type = "needle_status" -> {c.owned : c \in Counts(observer, takeover, world)}

takeover_worker_ids(fleet) == {target.worker_id : target \in Range(fleet.takeover)}

reconcile_observed_range(observed, fleet) ==
  IF observed \in fleet.min_workers .. fleet.max_workers THEN {observed}
  ELSE IF fleet.observer_reconciliation = "strict" THEN {}
  ELSE {Max({fleet.min_workers, Min({observed, fleet.max_workers})})}

current_workers(fleet, world) ==
  UNION {reconcile_observed_range(n, fleet) :
           n \in UNION {Observed(o, takeover_worker_ids(fleet), world) : o \in fleet.observer}}

unowned_workers(fleet, world) ==
  IF \E o \in fleet.observer : o.type = "needle_status"
  THEN UNION {{c.unowned : c \in Counts(o, takeover_worker_ids(fleet), world)} : o \in fleet.observer}
  ELSE {0}

(* One observer that fails, fails the account.                             *)
current_host_workers(hosts, world) ==
  LET seen(h) == Observed(hosts[h].observer, {}, world)
  IN  IF \E h \in DOMAIN hosts : seen(h) = {} THEN {}
      ELSE {[h \in DOMAIN hosts |-> CHOOSE n \in seen(h) : TRUE]}

-----------------------------------------------------------------------------
(* Seeds.  A demand document is read whole or not at all.                  *)
read_seed_demand(document) ==
  {d.ready : d \in {e \in document : e.parses /\ ~e.backlog_unavailable}}

seedable_count(document, excluded) ==
  {Min({Len(SelectSeq(ready, LAMBDA w : w \notin excluded)), MaxCount}) :
     ready \in read_seed_demand(document)}

launch_capacity(actuator, documents, excluded) ==
  IF actuator.type = "needle_run" /\ actuator.seed_demand_state # {}
  THEN UNION {seedable_count(documents[path], excluded) : path \in actuator.seed_demand_state}
  ELSE IF actuator.type = "needle_run" /\ actuator.repo \in excluded THEN {0}
  ELSE {MaxCount}

(* Unlike the observer, a heartbeat of the future is no running worker.    *)
seed_occupancy(dir) ==
  IF \E h \in dir : ~h.parses \/ h.size > MaxBytes THEN {}
  ELSE {[w \in {h.workspace : h \in dir} |->
           Cardinality({h \in dir : h.workspace = w /\ h.age \in 0 .. SeedStaleAfter - 1})]}

-----------------------------------------------------------------------------
(* Sessions.  tmux prints how many clients a session has; the code knows   *)
(* none and one.                                                           *)
parse_sessions(rows) ==
  IF \E row \in Range(rows) : row.name = <<>> \/ row.attached \notin {0, 1} THEN {}
  ELSE {[i \in DOMAIN rows |-> [name |-> rows[i].name, attached |-> rows[i].attached = 1]]}

list_sessions(answer) ==
  IF answer.success THEN parse_sessions(answer.rows)
  ELSE IF answer.no_server THEN {<<>>} ELSE {}

-----------------------------------------------------------------------------
(* Actuating.                                                              *)
reconcile_unchanged(actuator) == actuator.type = "command" /\ actuator.reconcile_unchanged

Invoked(actuator, observed, desired) ==
  /\ desired # observed \/ reconcile_unchanged(actuator)
  /\ actuator.type # "none"

(* The file holds the new count or, on an error, what it held.             *)
write_target(files, path, desired) ==
  {[ok |-> TRUE, files |-> [files EXCEPT ![path] = {Text("integer", desired, 2)}]],
   [ok |-> FALSE, files |-> files]}

Rendered(argv, desired) ==
  [i \in DOMAIN argv |-> IF argv[i] = "{desired_workers}" THEN desired ELSE argv[i]]

(* Two inputs are taken to have two hashes.                                *)
idempotency_token(rendered, desired) == [argv |-> rendered, desired |-> desired]

(* What command_actuator_actuate passes to the child, if it is invoked.    *)
TokenFor(actuator, observed, desired) ==
  {idempotency_token(Rendered(a.argv, desired), desired) :
     a \in {b \in {actuator} : Invoked(b, observed, desired)}}

(* actuate_with_exclusions, once nothing failed: whether the actuator ran, *)
(* and the count looked up again after one that reconciles every cycle.    *)
Outcome(fleet, observed, desired, world) ==
  {[actuated |-> Invoked(fleet.actuator, observed, desired),
    observed_workers |-> IF reconcile_unchanged(fleet.actuator)
                         THEN current_workers(fleet, world) ELSE {}] :
     w \in {x \in {world} : reconcile_unchanged(fleet.actuator) => current_workers(fleet, x) # {}}}
=============================================================================
