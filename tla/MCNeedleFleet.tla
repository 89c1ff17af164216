--------------------------- MODULE MCNeedleFleet ----------------------------
EXTENDS NeedleFleet, Integers, Sequences, TLC, FiniteSets
(* Repository 1 goes to the lowest host id, the peer's; repository 2 is    *)
(* assigned to this host.                                                  *)
MCRepoOwners == 2 :> 2

-----------------------------------------------------------------------------
(***************************************************************************)
(* Small configurations, and what TLC evaluates over all of them: facts    *)
(* about the rules of Config that the other modules take for granted.      *)
(***************************************************************************)
Cfg == INSTANCE Config WITH
         Lower <- {"s", "g", "z", "a", "b"}, Upper <- {"Z"}, Digit <- {"1", "2"},
         Unit <- 100, MaxSeconds <- 2147483647, Home <- <<"/", "u">>

(* One account that differs in its prefix, its steps and the hosts it is   *)
(* placed on; the rest of it is accepted.                                  *)
HostA == <<"a">>
HostB == <<"b">>
SamplePrefixes ==
  {<<"s", "g", "-", "z", "-">>, <<"z", "-">>, <<"z">>, <<"z", "1">>, <<"s", "g", "-">>,
   <<"s", "g", "-", "z", "-", "b", "-">>, <<"z", "-", "b", "-">>, <<"Z", "-">>}

Observer(prefix) == Cfg!NeedleStatus(<<"z">>, <<"~", "/", "h">>, {prefix})
Actuator(prefix) == Cfg!NeedleRun(<<"~">>, <<"z">>, {prefix})
HostEntry(prefix, up) ==
  [Cfg!HostBlock(Observer(prefix), Actuator(prefix)) EXCEPT !.max_scale_up_per_cycle = up]
Utilization == Cfg!UtilizationBlock({100}, {})
AccountOf(block) ==
  Cfg!AccountBlock([type |-> "normalized_file", path |-> <<"~", "/", "q">>], block, Utilization)

Plain(prefix, max) == AccountOf(Cfg!FleetBlock(max, {Observer(prefix)}, Actuator(prefix), {}))
Placed(prefix, max) ==
  AccountOf(Cfg!FleetBlock(max, {}, Cfg!NoActuator,
              {HostA :> HostEntry(prefix, {2}) @@ HostB :> HostEntry(prefix, {})}))

Federated(host, peers, primary) ==
  [Cfg!FederationBlock(host, peers) EXCEPT !.primary = primary]

AnyAccount == {Plain(p, m) : p \in SamplePrefixes, m \in {1, 3}} \cup {Placed(p, m) : p \in SamplePrefixes, m \in {1, 3}}
Configs ==
  {Cfg!ConfigBlock("x" :> x @@ "y" :> y, federation) :
     x, y \in AnyAccount,
     federation \in {{}} \cup {{Federated(HostB, peers, primary)} :
                                 peers \in {<<>>, <<Cfg!PeerBlock(HostA)>>}, primary \in BOOLEAN}}
Loaded == UNION {Cfg!load(c) : c \in Configs}

PrefixesOf(c, name) == Cfg!LocalPrefix(c.accounts[name].fleet, HostB)

(* Some of these configurations load, and some prefixes are rewritten.     *)
ASSUME SomeLoad ==
  \E c \in Loaded : /\ c.federation # {}
                    /\ PrefixesOf(c, "x") \cap SamplePrefixes = {}

(* What an omitted block is filled in with is accepted.                    *)
ASSUME DefaultsAreValid ==
  /\ Cfg!ValidSaturation(Cfg!DefaultSaturation)
  /\ Cfg!validate_backpressure(Cfg!DefaultBackpressure)
  /\ Cfg!validate_banked_resets(Cfg!DefaultBankedResets)

(* config.rs 522: what was validated is not what runs, because prefixes    *)
(* are rewritten after the validation.  The configuration that runs is     *)
(* itself accepted, and a second rewrite changes nothing.                  *)
ASSUME LoadedIsValid == \A c \in Loaded : Cfg!load(c) = {c}

(* ownership.rs 5: a worker carries the prefix of one pool.  On one host   *)
(* no worker name belongs to two accounts, as long as prefixes end in a    *)
(* separator; the validation compares prefixes and does not ask for one.   *)
Numbers == {<<"1">>, <<"2">>, <<"1", "2">>}
Separated(prefix) == prefix[Len(prefix)] = "-"
ASSUME WorkersHaveOnePool ==
  \A c \in {d \in Loaded : \E f \in d.federation : f.peers # <<>>} :
    \A p \in PrefixesOf(c, "x"), q \in PrefixesOf(c, "y"), n \in Numbers :
      Separated(p) /\ Separated(q) => ~Cfg!matches_worker_prefix(q, p \o n)

(* ownership.rs 46: where two hosts run one pool, the primary with the     *)
(* configured prefix and the other with the derived one, they share no     *)
(* worker name unless they use one prefix, which the startup refuses.      *)
ASSUME HostsHaveTheirOwn ==
  \A configured \in SamplePrefixes, n \in Numbers :
    LET derived == Cfg!effective_prefix(configured, HostB, FALSE)
    IN  /\ Cfg!matches_worker_prefix(derived, derived \o n)
        /\ configured # derived => /\ ~Cfg!matches_worker_prefix(configured, derived \o n)
                                   /\ ~Cfg!matches_worker_prefix(derived, configured \o n)

(* config.rs 773: a validated utilization block resolves every window,     *)
(* named or not, to a target in (0, 1] without a panic.                    *)
Options(S) == {{}} \cup {{x} : x \in S}
Windows ==
  {[Cfg!NoOverride EXCEPT !.enabled = e, !.target_utilization = t, !.reserve_fraction = r] :
     e \in Options(BOOLEAN), t \in Options({-1, 0, 1, 99, 100, 101}), r \in Options({-1, 0, 1, 99, 100, 101})}
Utilizations ==
  {[Utilization EXCEPT !.target_utilization = t, !.reserve_fraction = r, !.windows = "w" :> w] :
     t \in Options({-1, 0, 1, 99, 100, 101}), r \in Options({-1, 0, 1, 99, 100, 101}), w \in Windows}
ASSUME PoliciesResolve ==
  \A u \in Utilizations :
    Cfg!ValidUtilization(u) =>
      \A id \in {"w", "unnamed"} :
        /\ \A policy \in Cfg!policy_for(u, id) : policy.target \in 1 .. 100
        /\ Cfg!policy_for(u, id) = {} <=> id = "w" /\ u.windows["w"].enabled = {FALSE}

-----------------------------------------------------------------------------
(***************************************************************************)
(* Facts about the observers and actuators, over every directory of up to  *)
(* two heartbeats of agents whose names share a prefix.                    *)
(***************************************************************************)
Adp == INSTANCE Adapters WITH
         MaxCount <- 9, MaxBytes <- 3, SeedStaleAfter <- 2,
         Lower <- {"p", "q", "x"}, Upper <- {}, Digit <- {"1", "2"}

Agents == {<<"p">>, <<"p", "-", "q">>}
WorkerIds == {<<"x", "1">>, <<"q", "-", "1">>, <<"x", "2">>}
(* NEEDLE writes the name it puts inside; a torn file has the name only.   *)
BeatOf(agent, worker, age, workspace, parses) ==
  [name |-> agent \o <<"-">> \o worker, qualified_id |-> agent \o <<"-">> \o worker,
   worker_id |-> worker, age |-> age, workspace |-> workspace, parses |-> parses, size |-> 1]
SomeBeats ==
  {BeatOf(a, w, age, s, parses) :
     a \in Agents, w \in WorkerIds, age \in {-1, 1, 2, 3}, s \in 1 .. 2, parses \in BOOLEAN}
NamedOnce(dir) == \A g, h \in dir : g.name = h.name => g = h
Directories == {dir \in {{g, h} : g, h \in SomeBeats} : NamedOnce(dir)}
Whole(dir) == \A h \in dir : h.parses

CountOf(dir, agent, prefix, takeover) ==
  LET counts == Adp!count_needle_heartbeats(dir, agent, prefix, takeover, 2)
  IN  CHOOSE c \in counts : TRUE
Total(c) == c.owned + c.unowned + c.takeover

(* needle.rs 75: agents whose names share a prefix never count one worker  *)
(* twice, and the prefix and the takeover list only divide the fresh ones. *)
ASSUME EveryWorkerCountedOnce ==
  \A dir \in {d \in Directories : Whole(d)} :
    LET fresh == {h \in dir : h.age <= 2}
        total(agent, prefix, takeover) == Total(CountOf(dir, agent, prefix, takeover))
    IN  \A prefix \in {{}, {<<"x">>}}, takeover \in SUBSET {<<"x", "1">>} :
          /\ total(<<"p">>, prefix, takeover) + total(<<"p", "-", "q">>, prefix, takeover)
               = Cardinality(fresh)
          /\ prefix = {} => CountOf(dir, <<"p">>, prefix, takeover).unowned = 0

(* needle.rs 276: where a seed is called occupied, the observer counts a   *)
(* worker; the converse fails for a heartbeat dated in the future.         *)
ASSUME OccupiedIsObserved ==
  \A dir \in {d \in Directories : Whole(d)} :
    LET occupancy == CHOOSE o \in Adp!seed_occupancy(dir) : TRUE
        future == {h \in dir : h.age < 0}
        edge == {h \in dir : h.age = 2}
        occupied == {<<w, n>> \in (DOMAIN occupancy) \X (1 .. 2) : n <= occupancy[w]}
        observed == Total(CountOf(dir, <<"p">>, {}, {})) + Total(CountOf(dir, <<"p", "-", "q">>, {}, {}))
    IN  observed = Cardinality(occupied) + Cardinality(future) + Cardinality(edge)

(* A torn heartbeat makes the count unknown, never low: the observation    *)
(* fails for every agent whose name begins the file's.                     *)
ASSUME TornIsUnknown ==
  \A dir \in Directories, agent \in Agents :
    LET counts == Adp!count_needle_heartbeats(dir, agent, {}, {}, 2)
        torn == {h \in dir : ~h.parses}
    IN  /\ agent = <<"p">> => (counts = {} <=> torn # {})
        /\ Adp!seed_occupancy(dir) = {} <=> torn # {}

(* fleet.rs 710: a target file is what a file observer can read, before    *)
(* and after a write, whether or not it failed.                            *)
ASSUME TargetReadsBack ==
  \A before, target \in 0 .. 9 :
    LET files == 1 :> {Adp!Text("integer", before, 2)}
        seen(fs) == Adp!Observed([type |-> "file", path |-> 1], {}, [files |-> fs])
    IN  \A o \in Adp!write_target(files, 1, target) :
          seen(o.files) = {IF o.ok THEN target ELSE before}

(* fleet.rs 582: the token of a retry is the token of the attempt, and two *)
(* counts have two tokens; a count asked for again later has its first     *)
(* token, so a script cannot tell it from a retry.                         *)
Commanded(unchanged) == [type |-> "command", argv |-> <<"x", "{desired_workers}">>,
                         reconcile_unchanged |-> unchanged]
ASSUME TokenIsOfTheCount ==
  \A a, b, observed, later \in 0 .. 3, unchanged \in BOOLEAN :
    LET token(seen, count) == Adp!TokenFor(Commanded(unchanged), seen, count)
    IN  /\ token(observed, a) # {} /\ token(later, b) # {} =>
             (token(observed, a) = token(later, b) <=> a = b)
        /\ token(observed, a) = {} <=> observed = a /\ ~unchanged
=============================================================================
