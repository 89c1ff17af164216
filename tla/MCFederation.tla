---------------------------- MODULE MCFederation ----------------------------
EXTENDS Federation, Integers, Sequences, FiniteSets, TLC
MCFleet == [min_workers |-> 0, max_workers |-> 3,
            max_scale_up_per_cycle |-> 2, max_scale_down_per_cycle |-> 1]
(* The hosts differ: one is larger.                                        *)
MCCeiling == (1 :> 1) @@ (2 :> 3)
MCStepUp == [h \in Hosts |-> 1]
MCRawTarget == (0 :> 3) @@ (3 :> 1)

-----------------------------------------------------------------------------
(***************************************************************************)
(* Facts about peer records over small configurations and files: three     *)
(* hosts, two accounts, two repositories, one of whose names has a blank.  *)
(***************************************************************************)
RecHosts == {<<"a">>, <<"b">>, <<"c">>}
RecNames == {<<"x">>, <<"y", " ">>}
Rec == INSTANCE PeerRecords WITH
         Lower <- {"a", "b", "c", "x", "y", "s", "g"}, Upper <- {}, Digit <- {},
         Unit <- 2, MaxSeconds <- 99999, Home <- <<>>, MaxCount <- 9, SkewTolerance <- 1,
         Rank <- <<"a">> :> 1 @@ <<"b">> :> 2 @@ <<"c">> :> 3 @@ <<"x">> :> 4 @@ <<"y", " ">> :> 5

Opt(S) == {{}} \cup {{x} : x \in S}

(* A host's fleet seeds from a demand document, or works in one repository. *)
Document == <<"d">>
PathOne == <<"1">>
PathTwo == <<"2">>
Seeder(prefix, seeds) ==
  [Rec!NeedleRun(PathOne, <<"x">>, {prefix}) EXCEPT !.seed_demand_state = seeds,
                                                    !.seed_heartbeats = seeds]
RecUtilization == [Rec!UtilizationBlock({2}, {}) EXCEPT !.stale_after_seconds = 9]
RecAccount(host, prefix, seeds) ==
  LET observer == Rec!NeedleStatus(<<"x">>, <<"h">>, {prefix})
      entry == [Rec!HostBlock(observer, Seeder(prefix, seeds)) EXCEPT
                  !.resource_reserve = {[cpu |-> 1]}]
  IN  Rec!AccountBlock([type |-> "normalized_file", path |-> <<"q">>],
                       Rec!FleetBlock(4, {}, Rec!NoActuator, {host :> entry}), RecUtilization)
Others(host) == CHOOSE s \in [1 .. 2 -> RecHosts \ {host}] : s[1] # s[2]
RecConfig(host, accounts, owners) ==
  Rec!ConfigBlock(accounts,
    {[Rec!FederationBlock(host, [i \in 1 .. 2 |-> Rec!PeerBlock(Others(host)[i])]) EXCEPT
        !.repo_owners = owners]})

RecWorkspace(path, beads, slots) == [workspace |-> path, ready_beads |-> beads, eligible_slots |-> slots]
NoCapacity == [last_evidence |-> {}, reservations |-> <<>>]
RecFiles(paths, origin, document, excluded) ==
  [status |-> <<"x">> :> [current_workers |-> {2}, desired_workers |-> {}],
   windows |-> <<"x">> :> (1 :> [used_fraction |-> 1, observed_at |-> 3] @@
                           2 :> [used_fraction |-> 2, observed_at |-> 3]),
   capacity |-> {NoCapacity}, demand |-> Document :> document, origin |-> origin,
   excluded |-> excluded, pending |-> <<>>, instance_id |-> {}, record_seq |-> 0]
Listing(paths) ==
  [Rec!NoDemand EXCEPT !.workspaces = [i \in 1 .. Len(paths) |-> RecWorkspace({paths[i]}, {1}, {2})]]

-----------------------------------------------------------------------------
(* federation.rs 216: every record a host publishes is one its peers       *)
(* accept, as long as the account names and the prefixes of its hosts have *)
(* no blanks.  Config::validate does not ask for that, and a peer that     *)
(* refuses every record stays frozen until it forgets this host.           *)
PublishingConfigs ==
  {RecConfig(<<"b">>, name :> RecAccount(<<"b">>, prefix, seeds) @@
                      <<"x">> :> RecAccount(<<"b">>, <<"x", "-">>, seeds), <<>>) :
     name \in RecNames, prefix \in {<<"y", "-">>, <<"y", " ">>}, seeds \in Opt({Document})}
PublishingFiles ==
  {RecFiles(paths, origin, Listing(paths), {}) :
     paths \in {<<>>, <<PathOne>>, <<PathOne, <<" ">>>>},
     origin \in {<<>>, PathOne :> [repo |-> 1, userinfo |-> TRUE, query |-> FALSE]}}
ASSUME PublishedIsAccepted ==
  \A c \in PublishingConfigs, f \in PublishingFiles :
    /\ Rec!validate(c)
    /\ \A loaded \in Rec!load(c) : \A r \in Rec!build_local_record(loaded, f, 5, <<"i">>) :
         Rec!parse(r) <=>
           \A name \in DOMAIN c.accounts :
             /\ Rec!validate_identifier(name)
             /\ \A p \in Rec!LocalPrefix(c.accounts[name].fleet, <<"b">>) : Rec!validate_identifier(p)

-----------------------------------------------------------------------------
(* Three hosts that list one or two repositories each and have all pulled  *)
(* each other's records.                                                   *)
OriginsOf == {[repo |-> r, userinfo |-> u, query |-> q] : r \in 1 .. 2, u \in BOOLEAN, q \in BOOLEAN}
Plainly(o) == [o EXCEPT !.userinfo = FALSE]
HostFiles == {<<>>} \cup {PathOne :> o : o \in OriginsOf}
RecordOf(host, origin) ==
  LET c == RecConfig(host, <<"x">> :> RecAccount(host, host, {Document}), <<>>)
      f == RecFiles(<<PathOne>>, origin, Listing(<<PathOne>>), {})
  IN  CHOOSE r \in Rec!build_local_record(c, f, 5, host) : TRUE
RecordTable == [h \in RecHosts, o \in HostFiles |-> RecordOf(h, o)]

ExcludedBy(h, table, owners) ==
  Rec!resolve_workspace_overlap(h, RecordTable[h, table[h]].workspace_origins,
    {RecordTable[g, table[g]] : g \in RecHosts \ {h}}, owners)
Lists(h, table, origin) == origin \in {Plainly(o) : o \in {table[h][p] : p \in DOMAIN table[h]}}
Keepers(table, origin, owners) ==
  {h \in RecHosts : Lists(h, table, origin) /\ ExcludedBy(h, table, owners) = {}}
Tables == [RecHosts -> HostFiles]
AssignedTo == {<<>>, [repo |-> 1, userinfo |-> FALSE, query |-> FALSE] :> <<"c">>}

(* ownership.rs 113: hosts that see each other's records leave every       *)
(* listed repository to one host, the assigned or the first one; when it   *)
(* is assigned to a host that does not list it, others that share it all   *)
(* leave it alone.                                                         *)
ASSUME OneKeeper ==
  \A table \in Tables, owners \in AssignedTo, o \in {Plainly(x) : x \in OriginsOf} :
    LET listing == {h \in RecHosts : Lists(h, table, o)}
        kept == Keepers(table, o, owners)
    IN  /\ Cardinality(kept) <= 1
        /\ kept = {} => \/ listing = {}
                        \/ o \in DOMAIN owners /\ <<"c">> \notin listing

(* main.rs 506: the report of the peers command names the same overlaps    *)
(* and the same owners as the exclusions do, unless an origin carries a    *)
(* query, which the report drops and the exclusions compare.               *)
ReportBy(h, table, owners) ==
  Rec!peer_overlaps(h, RecordTable[h, table[h]].workspace_origins, {h},
                    {RecordTable[g, table[g]] : g \in RecHosts \ {h}}, owners)
ASSUME ReportIsTheExclusions ==
  \A table \in {t \in Tables : \A h \in RecHosts : \A p \in DOMAIN t[h] : ~t[h][p].query},
     owners \in AssignedTo :
    LET report == ReportBy(<<"b">>, table, owners) IN
    /\ \A h \in RecHosts :
         ExcludedBy(h, table, owners) # {} <=>
           \E w \in report.workspaces : h \in w.hosts /\ w.owner # h
    /\ report.prefixes = {}

-----------------------------------------------------------------------------
(* federation.rs 1443: excluding a workspace takes its demand and nothing  *)
(* else from a document whose totals are the sums of its workspaces; a     *)
(* document that only has totals offers nothing once anything is excluded. *)
Slots(S) == IF S = {} THEN 0 ELSE CHOOSE n \in S : TRUE
ASSUME ExclusionTakesItsOwn ==
  \A one, two \in Opt(0 .. 2), excluded \in SUBSET {PathOne, PathTwo, <<"z">>} :
    LET total == Slots(one) + Slots(two)
        summed == [Rec!NoDemand EXCEPT
                     !.eligible_backlog_capacity = {total}, !.ready_bead_count = {total},
                     !.workspaces = <<RecWorkspace({PathOne}, one, one), RecWorkspace({PathTwo}, two, two)>>]
        bound == Rec!worker_bound(Rec!ready_demand(summed, excluded))
        bare == [summed EXCEPT !.workspaces = <<>>]
    IN  /\ bound = (IF PathOne \in excluded THEN 0 ELSE Slots(one))
                   + (IF PathTwo \in excluded THEN 0 ELSE Slots(two))
        /\ Rec!worker_bound(Rec!ready_demand(bare, excluded)) = IF excluded = {} THEN total ELSE 0

(* federation.rs 1594: evidence without a time publishes no ceiling and no *)
(* reservation, so peers hold; only an unusable time becomes now.          *)
ASSUME UndatedEvidenceIsUnknown ==
  \A ceiling \in Opt({1}), at \in Opt({-1, 3}) :
    LET capacity == [last_evidence |-> {[ceiling |-> ceiling, observed_at |-> at]},
                     reservations |-> "p" :> [count |-> 1, at |-> at]]
    IN  /\ Rec!Ceilings(capacity, 5) = {} <=> ceiling = {} \/ at = {}
        /\ DOMAIN Rec!Reservations(capacity, 5) = {} <=> at = {}
        /\ \A c \in Rec!Ceilings(capacity, 5) : c.observed_at \in {3, 5}

(* main.rs 393: a peer whose pull failed or was refused shows no workers   *)
(* rather than none running, and the overlap list says it is incomplete.   *)
ASSUME ReportIsHonest ==
  LET c == RecConfig(<<"b">>, <<"x">> :> RecAccount(<<"b">>, <<"b">>, {Document}), <<>>)
      good == RecordTable[<<"a">>, <<>>]
      bad == {[good EXCEPT !.schema_version = 2], [good EXCEPT !.host_id = <<"c">>],
              [good EXCEPT !.observed_at = 7]}
      answers == {{}, {good}} \cup {{r} : r \in bad}
  IN  \A answer \in answers :
        LET report == Rec!peers(c, RecFiles(<<>>, <<>>, Rec!NoDemand, {}), <<"a">> :> answer, 5)
            row == report.rows[<<"a">>]
        IN  /\ (answer = {good}) = report.overlap_complete
            /\ report.own[<<"x">>] = {2}
            /\ row.workers[<<"x">>] = IF answer = {good} THEN {2} ELSE {}
=============================================================================
