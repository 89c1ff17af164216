---------------------------- MODULE PeerRecords ----------------------------
(***************************************************************************)
(* The record one host publishes for its peers: what it is built from,     *)
(* what a receiver accepts, and the report of the peers command.  No       *)
(* variables: the files a record is built from are an argument.            *)
(*                                                                         *)
(* files has the status lines and the quota windows of each account, the   *)
(* host-capacity evidence (none when the configured file cannot be read),  *)
(* the demand documents that can be read by path,                          *)
(* the git origins that can be read by workspace, the published            *)
(* exclusions and pending launches, the instance id (none when it has to   *)
(* be created) and the record counter.  An origin is a repository with or  *)
(* without user information and a query; a git remote has a path after its *)
(* authority.                                                              *)
(***************************************************************************)
EXTENDS Config, TLC

CONSTANTS
  MaxCount,       \* u32::MAX
  SkewTolerance,  \* PEER_CLOCK_SKEW_TOLERANCE_SECONDS
  Rank            \* the place of host ids and account names in lexicographic order

Schema == 1
Blank == {" "}
IsBlank(text) == Range(text) \subseteq Blank
First(names) == CHOOSE n \in names : \A m \in names : Rank[n] <= Rank[m]
Counted(S) == Sole(OrElse(S, {0}))
Saturated(n) == Min({n, MaxCount})
SumOf(seq, Of(_)) == Saturated(FoldLeft(LAMBDA total, x : total + Of(x), 0, seq))

validate_identifier(text) == text # <<>> /\ Range(text) \cap Blank = {}

(* A fingerprint is a mark before the identifier: two identifiers are      *)
(* taken to have two truncated hashes.                                     *)
account_fingerprint(identifier) == <<"#">> \o identifier
is_fingerprint(text) == text # <<>> /\ Head(text) = "#"

sanitize_origin(origin) == [origin EXCEPT !.userinfo = FALSE]
report_origin(origin) == [origin EXCEPT !.userinfo = FALSE, !.query = FALSE]

-----------------------------------------------------------------------------
(* Demand.                                                                 *)
NoDemand == [ready_bead_count |-> None, eligible_backlog_capacity |-> None,
             workspaces |-> <<>>, ready |-> <<>>]

(* Without exclusions the document's own totals count; with any, the sums  *)
(* over the workspaces that are not excluded.                              *)
ready_demand(demand, excluded) ==
  LET open == SelectSeq(demand.workspaces,
                        LAMBDA w : w.workspace # None /\ w.workspace \cap excluded = {})
  IN  IF excluded = {}
      THEN [ready_beads |-> Counted(demand.ready_bead_count),
            eligible_backlog_capacity |-> demand.eligible_backlog_capacity]
      ELSE [ready_beads |-> SumOf(open, LAMBDA w : Counted(w.ready_beads)),
            eligible_backlog_capacity |-> {SumOf(open, LAMBDA w : Counted(w.eligible_slots))}]

worker_bound(ready) == Sole(OrElse(ready.eligible_backlog_capacity, {ready.ready_beads}))

LocalActuator(fleet, host_id) ==
  IF fleet.hosts = None THEN {fleet.actuator}
  ELSE {hosts[host_id].actuator : hosts \in {hs \in fleet.hosts : host_id \in DOMAIN hs}}
LocalNeedle(fleet, host_id) == {a \in LocalActuator(fleet, host_id) : a.type = "needle_run"}

seed_demand_state(fleet, host_id) ==
  UNION {a.seed_demand_state : a \in LocalNeedle(fleet, host_id)}

(* A document that cannot be read is no demand.                            *)
read_demand(fleet, host_id, files) ==
  LET paths == seed_demand_state(fleet, host_id) \cap DOMAIN files.demand
  IN  IF paths = {} THEN NoDemand ELSE files.demand[Sole(paths)]

(* A workspace whose origin cannot be read is left out.                    *)
seed_origins(demand, files) ==
  LET listed == UNION {w.workspace : w \in Range(demand.workspaces \o demand.ready)}
  IN  [path \in {p \in listed \cap DOMAIN files.origin : ~IsBlank(p)} |->
         sanitize_origin(files.origin[path])]

local_seed_origins(fleet, host_id, files) ==
  LET fixed == IF seed_demand_state(fleet, host_id) # None THEN {}
               ELSE {a.repo : a \in LocalNeedle(fleet, host_id)} \cap DOMAIN files.origin
  IN  [path \in fixed |-> sanitize_origin(files.origin[path])]
        @@ seed_origins(read_demand(fleet, host_id, files), files)

-----------------------------------------------------------------------------
(* Publishing.                                                             *)

(* The newest sample; on a tie the first window id.                        *)
freshest_window(windows) ==
  LET newest == {id \in DOMAIN windows :
                   \A other \in DOMAIN windows : windows[other].observed_at <= windows[id].observed_at}
      first == {id \in newest : \A other \in newest : id <= other}
  IN  {[window |-> id, used_fraction |-> windows[id].used_fraction] : id \in first}

(* An adapter's time: none is no time at all, an unusable one is now.      *)
Unusable == -1
epoch(seconds, now) == {IF s = Unusable THEN now ELSE s : s \in seconds}

load_or_create_instance_id(stored, fresh) ==
  IF stored = None THEN {fresh} ELSE {id \in stored : validate_identifier(id)}

next_record_seq(current) == IF current < MaxCount THEN {current + 1} ELSE None

(* The first account by name that places this host and declares a reserve. *)
host_resource_reserve(accounts, host_id) ==
  LET declared(name) ==
        UNION {hosts[host_id].resource_reserve :
                 hosts \in {hs \in accounts[name].fleet.hosts : host_id \in DOMAIN hs}}
      declaring == {name \in DOMAIN accounts : declared(name) # None}
  IN  IF declaring = {} THEN None ELSE declared(First(declaring))

pool_key(fleet, name, host_id) == Sole(OrElse(LocalPrefix(fleet, host_id), {name}))

pool_states(account, name, host_id, files) ==
  LET line == IF name \in DOMAIN files.status THEN files.status[name]
              ELSE [current_workers |-> None, desired_workers |-> None]
      key == pool_key(account.fleet, name, host_id)
  IN  key :> [governed_workers |-> Counted(line.current_workers),
              pending_launches |-> IF key \in DOMAIN files.pending THEN files.pending[key] ELSE 0,
              desired |-> Counted(line.desired_workers),
              quota_sample |-> IF name \in DOMAIN files.windows
                               THEN freshest_window(files.windows[name]) ELSE None,
              ready_demand |-> ready_demand(read_demand(account.fleet, host_id, files),
                                            files.excluded)]

Ceilings(capacity, now) ==
  UNION {{[workers |-> c, observed_at |-> t] : c \in e.ceiling, t \in epoch(e.observed_at, now)} :
           e \in capacity.last_evidence}
Reservations(capacity, now) ==
  LET dated == {p \in DOMAIN capacity.reservations : capacity.reservations[p].at # None}
  IN  [p \in dated |-> [count |-> capacity.reservations[p].count,
                        reserved_at |-> Sole(epoch(capacity.reservations[p].at, now))]]

Identifier(federation, name) ==
  IF name \in DOMAIN federation.account_identities THEN federation.account_identities[name] ELSE name

(* config is a loaded one with a federation block; no record when the      *)
(* instance id, the counter or the capacity file is refused: evidence that *)
(* cannot be read does not merely publish no ceiling.                      *)
build_local_record(config, files, now, fresh_id) ==
  LET federation == Sole(config.federation)
      host_id == federation.host_id
      account(name) ==
        [account_id |-> name,
         account_fingerprint |-> account_fingerprint(Identifier(federation, name)),
         pools |-> pool_states(config.accounts[name], name, host_id, files)]
      origins == {local_seed_origins(config.accounts[name].fleet, host_id, files) :
                    name \in DOMAIN config.accounts}
  IN  {[schema_version |-> Schema, instance_id |-> id, host_id |-> host_id,
        record_seq |-> seq, observed_at |-> now,
        accounts |-> [name \in DOMAIN config.accounts |-> account(name)],
        host_ceiling |-> Ceilings(capacity, now),
        host_reservations |-> Reservations(capacity, now),
        resource_reserve |-> host_resource_reserve(config.accounts, host_id),
        workspace_origins |-> [path \in UNION {DOMAIN o : o \in origins} |->
                                 sanitize_origin(files.origin[path])]] :
         id \in load_or_create_instance_id(files.instance_id, fresh_id),
         seq \in next_record_seq(files.record_seq), capacity \in files.capacity}

-----------------------------------------------------------------------------
(* Receiving.                                                              *)
ValidPeerAccount(name, account) ==
  /\ validate_identifier(name)
  /\ account.account_id = name
  /\ is_fingerprint(account.account_fingerprint)
  /\ \A pool \in DOMAIN account.pools :
       /\ validate_identifier(pool)
       /\ \A sample \in account.pools[pool].quota_sample : sample.used_fraction \in 0 .. Unit

(* PeerRecord::parse and PeerRecord::validate.                             *)
parse(record) ==
  /\ record.schema_version = Schema
  /\ validate_identifier(record.instance_id)
  /\ validate_identifier(record.host_id)
  /\ \A name \in DOMAIN record.accounts : ValidPeerAccount(name, record.accounts[name])
  /\ \A path \in DOMAIN record.workspace_origins : ~IsBlank(path)

(* PeerTable::ingest of one pull: answer is the set of the record, empty   *)
(* when the transport failed.                                              *)
Rejection(peer, answer, now) ==
  CASE answer = {} -> "transport_failed"
    [] answer # {} /\ ~parse(Sole(answer)) -> "invalid_record"
    [] answer # {} /\ parse(Sole(answer)) /\ Sole(answer).host_id # peer -> "host_mismatch"
    [] answer # {} /\ parse(Sole(answer)) /\ Sole(answer).host_id = peer ->
         IF Sole(answer).observed_at > now + SkewTolerance THEN "clock_skew" ELSE "accepted"

-----------------------------------------------------------------------------
(* Workspace ownership over whole records, and the peers report.           *)
workspace_owner(origin, repo_owners, claimants) ==
  IF origin \in DOMAIN repo_owners THEN repo_owners[origin]
  ELSE First(claimants)

resolve_workspace_overlap(host_id, origins, records, repo_owners) ==
  LET holders(origin) == {r.host_id : r \in {q \in records : origin \in Range(q.workspace_origins)}}
  IN  {path \in DOMAIN origins :
         /\ holders(origins[path]) # {}
         /\ workspace_owner(origins[path], repo_owners, {host_id} \cup holders(origins[path]))
              # host_id}

claimed_prefixes(record) ==
  UNION {DOMAIN record.accounts[name].pools : name \in DOMAIN record.accounts}

peer_overlaps(host_id, origins, prefixes, records, repo_owners) ==
  LET hosts == {host_id} \cup {r.host_id : r \in records}
      of(h) == {r \in records : r.host_id = h}
      shown(h) == {report_origin(o) : o \in UNION {Range(r.workspace_origins) : r \in of(h)}
                                              \cup IF h = host_id THEN Range(origins) ELSE {}}
      claimed(h) == UNION {claimed_prefixes(r) : r \in of(h)}
                      \cup IF h = host_id THEN prefixes ELSE {}
      holders(origin) == {h \in hosts : origin \in shown(h)}
      users(prefix) == {h \in hosts : prefix \in claimed(h)}
      contested == {o \in UNION {shown(h) : h \in hosts} : Cardinality(holders(o)) > 1}
      shared == {p \in UNION {claimed(h) : h \in hosts} : Cardinality(users(p)) > 1}
  IN  [workspaces |-> {[origin |-> o, hosts |-> holders(o),
                        owner |-> workspace_owner(o, repo_owners, holders(o))] : o \in contested},
       prefixes |-> {[prefix |-> p, hosts |-> users(p)] : p \in shared}]

(* What the report shows of one peer; a refused pull shows no workers.     *)
PeerRow(accounts, peer, answer, now) ==
  LET why == Rejection(peer, answer, now)
      workers(account) == Saturated(MapThenSumSet(LAMBDA p : account.pools[p].governed_workers,
                                                  DOMAIN account.pools))
  IN  IF why # "accepted"
      THEN [staleness |-> "stale", error |-> {why}, workers |-> [a \in accounts |-> None]]
      ELSE LET theirs == Sole(answer).accounts
           IN  [staleness |-> "fresh", error |-> None,
                workers |-> [a \in accounts \cup DOMAIN theirs |->
                               IF a \in DOMAIN theirs THEN {workers(theirs[a])} ELSE {0}]]

(* answers: what each configured peer answered.                            *)
peers(config, files, answers, now) ==
  LET federation == Sole(config.federation)
      host_id == federation.host_id
      accepted == {p \in DOMAIN answers : Rejection(p, answers[p], now) = "accepted"}
      own(name) == IF name \in DOMAIN files.status THEN files.status[name].current_workers ELSE None
      origins == {local_seed_origins(config.accounts[a].fleet, host_id, files) :
                    a \in DOMAIN config.accounts}
      prefixes == UNION {LocalPrefix(config.accounts[a].fleet, host_id) : a \in DOMAIN config.accounts}
  IN  [rows |-> [p \in DOMAIN answers |-> PeerRow(DOMAIN config.accounts, p, answers[p], now)],
       own |-> [name \in DOMAIN config.accounts |-> own(name)],
       overlap_complete |-> accepted = DOMAIN answers,
       overlaps |-> peer_overlaps(host_id,
                      [path \in UNION {DOMAIN o : o \in origins} |-> sanitize_origin(files.origin[path])],
                      prefixes, UNION {answers[p] : p \in accepted}, federation.repo_owners)]
=============================================================================
