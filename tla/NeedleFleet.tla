---------------------------- MODULE NeedleFleet ----------------------------
(***************************************************************************)
(* One host's NEEDLE pool: the heartbeat observer, the workspace ownership *)
(* view, the launch gate's second pull, and the actuator that launches and *)
(* stops tmux sessions one `needle` command at a time.                     *)
(*                                                                         *)
(* The observer counts heartbeats and the actuator counts sessions, and    *)
(* neither follows the other at once: a new session has no heartbeat yet,  *)
(* a dead worker's heartbeat stays fresh for a while, a hung one's session *)
(* stays.  Demand documents and peer answers are read anew at every use,   *)
(* so each use chooses its own.                                            *)
(*                                                                         *)
(* An identifier is the number after the pool's prefix.  Its numeral is    *)
(* written in base Base (10 in the code), because the code sorts sessions  *)
(* by name and `needle stop` matches every name that contains its argument.*)
(* NEEDLE, tmux and the operator are external.                             *)
(***************************************************************************)
EXTENDS Sums, SequencesExt

CONSTANTS
  Local,       \* this host's id; ids are ordered as numbers
  Peers,       \* the ids of the configured peers
  Repos,       \* contested repositories, one workspace path each, ordered
  RepoOwners,  \* the repo_owners entries: some repositories to a host id
  Home,        \* the configured repo of a pool without seed sources
  Base, Width, \* numerals have base Base and at most Width digits
  MaxId,       \* bound: identifiers the pool may use
  MinWorkers, MaxWorkers, StepUp,
  MaxReady     \* bound: ready jobs a demand document lists per workspace

Ids == 1..MaxId
Hosts == Peers \cup {Local}

ASSUME NeedleAssumption ==
  /\ Local \in Nat /\ Peers \subseteq Nat /\ Local \notin Peers
  /\ Repos \subseteq Nat /\ IsFiniteSet(Repos) /\ Home \in Repos
  /\ DOMAIN RepoOwners \subseteq Repos
  /\ Base \in Nat \ {0, 1} /\ MaxId < Base^Width
  /\ MinWorkers \in Nat /\ MaxWorkers \in Nat /\ MaxId \in Nat
  /\ MinWorkers <= MaxWorkers /\ MaxWorkers <= MaxId
  /\ StepUp \in Nat /\ MaxReady \in Nat

VARIABLES
  seeded,    \* the pool has seed sources (configuration, never changes)
  clamped,   \* observer_reconciliation is clamp (configuration)
  sessions,  \* identifiers whose tmux session exists
  attached,  \* those an operator is attached to
  beats,     \* identifiers with a fresh heartbeat
  excluded,  \* the exclusions file: workspaces another host keeps
  phase,     \* "pull", "observe", "gate", "list", "launch" or "stop"
  workers,   \* the count the observer reported this cycle
  desired,   \* the count the cycle actuates
  queue,     \* the launches or stops still to run
  kept       \* history: what the last complete pull gave to other hosts

governor == <<phase, workers, desired, queue>>
config == <<seeded, clamped>>
vars == <<config, sessions, attached, beats, excluded, kept, governor>>

-----------------------------------------------------------------------------
(* Names.                                                                  *)

Digits(n) == CHOOSE d \in 1..Width : Base^(d - 1) <= n /\ n < Base^d

(* Session names compare as strings: "1" < "10" < "2".                     *)
NameBefore(m, n) ==
  LET a == m * Base^(Width - Digits(m))
      b == n * Base^(Width - Digits(n))
  IN  a < b \/ (a = b /\ m < n)

(* The name of m contains the name of n, and differs from it.              *)
ContainsName(m, n) == \E k \in 1..Width : m \div Base^k = n

-----------------------------------------------------------------------------
(* Workspace ownership.  A peer answers a pull with its record, which      *)
(* lists its workspaces and may claim this pool's worker prefix (a clash), *)
(* or is silent: no record, or another host's.                             *)

Answer == [kind : {"silent", "clash"}, lists : {{}}] \cup [kind : {"record"}, lists : SUBSET Repos]
Answers == [Peers -> Answer]
Silent(answers) == {p \in Peers : answers[p].kind = "silent"}
Clash(answers) == \E p \in Peers : answers[p].kind = "clash"
Claimants(answers, r) == {p \in Peers : r \in answers[p].lists}

workspace_owner(r, hosts) == IF r \in DOMAIN RepoOwners THEN RepoOwners[r] ELSE Min(hosts)

(* listed: the workspaces this host's own demand document names.           *)
resolve_workspace_overlap(listed, answers) ==
  {r \in listed : /\ Claimants(answers, r) # {}
                  /\ workspace_owner(r, Claimants(answers, r) \cup {Local}) # Local}

(* variant: the peers that did answer are taken for all of them *)
ExclusionsOfAnswered(listed, answers) == resolve_workspace_overlap(listed, answers)

(* Only a pull every peer answered replaces the exclusions file.           *)
Exclusions(listed, answers) ==
  IF Silent(answers) = {} THEN resolve_workspace_overlap(listed, answers) ELSE excluded

(* A workspace of this host that a peer also lists, with another owner.    *)
KeptElsewhere(listed, answers) ==
  {r \in listed : \E p \in Peers : /\ r \in answers[p].lists
                                   /\ IF r \in DOMAIN RepoOwners THEN RepoOwners[r] # Local
                                      ELSE \E q \in Peers : r \in answers[q].lists /\ q < Local}

(* refresh_ownership on the records of one pull, without a prefix clash.   *)
Refresh(listed, answers) ==
  /\ excluded' = Exclusions(listed, answers)
  /\ kept' = IF Silent(answers) = {} THEN KeptElsewhere(listed, answers) ELSE kept

-----------------------------------------------------------------------------
(* Seeds.                                                                  *)

Demands == [Repos -> 0..MaxReady]
Seedable(ready) == [r \in Repos |-> IF r \in excluded THEN 0 ELSE ready[r]]

(* What launch_capacity may return under the exclusions ex, over the       *)
(* demand documents there may be; a pool without seeds has no limit.       *)
launch_capacity(ex) ==
  IF seeded THEN 0..(MaxReady * Cardinality(Repos \ ex))
  ELSE {IF Home \in ex THEN 0 ELSE MaxWorkers}

(* The ready workspace with the fewest running workers, then the smallest. *)
NextSeed(left, running) ==
  CHOOSE r \in Repos :
    /\ left[r] > 0
    /\ \A q \in Repos : left[q] > 0 =>
         running[r] < running[q] \/ (running[r] = running[q] /\ r <= q)

(* One job is seeded: it is taken from its workspace, whose load grows.    *)
SeedOne(b) ==
  LET r == NextSeed(b.left, b.running)
  IN  [left |-> [b.left EXCEPT ![r] = @ - 1],
       running |-> [b.running EXCEPT ![r] = @ + 1],
       seeds |-> Append(b.seeds, r)]

seed_order(ready, running) ==
  LET jobs == SumOver(ready, Repos)
      picked[n \in 0..jobs] ==
        IF n = 0 THEN [left |-> ready, running |-> running, seeds |-> <<>>]
        ELSE SeedOne(picked[n - 1])
  IN  picked[jobs].seeds

-----------------------------------------------------------------------------
(* What the actuator will do.                                              *)

(* variant: the difference to the count the observer reported *)
MissingBeats == desired - workers
Missing == desired - Cardinality(sessions)

(* The members of S in the order of Before, a strict total order.          *)
InOrder(S, Before(_, _)) ==
  [k \in 1..Cardinality(S) |->
     CHOOSE i \in S : Cardinality({j \in S : Before(j, i)}) = k - 1]

(* Free identifiers in the order the launch loop tries them.               *)
FreeIds == InOrder(Ids \ sessions, <)

Launches(seeds) ==
  [k \in 1..Min({Missing, Len(seeds), Len(FreeIds)}) |->
     [id |-> FreeIds[k], repo |-> seeds[k]]]

Detached == InOrder(sessions \ attached, NameBefore)

(* variant: no look at the other names *)
stop_unchecked(n) ==
  IF n <= Len(Detached) THEN [k \in 1..n |-> [id |-> Detached[k], repo |-> Home]] ELSE <<>>

(* The first surplus detached sessions by name, or nothing at all when too *)
(* few are detached or a name could match another session.                 *)
stop_candidates(n) ==
  LET chosen == SubSeq(Detached, 1, n)
      ok == /\ n <= Len(Detached)
            /\ \A i \in ToSet(chosen), m \in sessions : ~ContainsName(m, i)
  IN  IF ok THEN [k \in 1..n |-> [id |-> chosen[k], repo |-> Home]] ELSE <<>>

-----------------------------------------------------------------------------
Rest == phase' = "pull" /\ workers' = 0 /\ desired' = 0 /\ queue' = <<>>
fleet == <<sessions, attached, beats>>

Init ==
  /\ seeded \in BOOLEAN /\ clamped \in BOOLEAN
  /\ sessions = {} /\ attached = {} /\ beats = {}
  /\ excluded = {} /\ kept = {}
  /\ phase = "pull" /\ workers = 0 /\ desired = 0 /\ queue = <<>>

(* ownership_for_cycle: a clash is reported and the cycle goes on with the *)
(* exclusions there were.                                                  *)
Pull(listed, answers) ==
  /\ phase = "pull"
  /\ IF Clash(answers) THEN UNCHANGED <<excluded, kept>> ELSE Refresh(listed, answers)
  /\ phase' = "observe"
  /\ UNCHANGED <<config, fleet, workers, desired, queue>>

(* The observer and the range policy: strict fails the cycle, clamp        *)
(* reports the nearest bound.  The controller then chooses a count; here   *)
(* any that the step up allows, since a share has no step down.            *)
InRange(n) == MinWorkers <= n /\ n <= MaxWorkers
Reconciled(n) == IF n < MinWorkers THEN MinWorkers ELSE IF n > MaxWorkers THEN MaxWorkers ELSE n

Observe(d) ==
  /\ phase = "observe"
  /\ LET n == Cardinality(beats) IN
       IF ~InRange(n) /\ ~clamped THEN d = 0 /\ Rest
       ELSE /\ d <= Reconciled(n) + StepUp /\ d <= MaxWorkers /\ d >= MinWorkers
            /\ IF d = Reconciled(n) THEN Rest
               ELSE /\ workers' = Reconciled(n) /\ desired' = d
                    /\ phase' = IF d > Reconciled(n) THEN "gate" ELSE "list"
                    /\ UNCHANGED queue
  /\ UNCHANGED <<config, fleet, excluded, kept>>

(* gate_federated_launch: no more than can be seeded, then a second pull.  *)
(* A clash, or less room than the launch wants, abandons it, and so may    *)
(* the launch bound (LaunchGate's) or a silent peer that has not expired.  *)
Gate(listed, answers) ==
  /\ phase = "gate"
  /\ \E room \in launch_capacity(excluded) :
       LET want == Min({desired - workers, room, StepUp}) IN
       IF want = 0 THEN Rest /\ UNCHANGED <<excluded, kept>>
       ELSE /\ IF Clash(answers) THEN UNCHANGED <<excluded, kept>>
                                 ELSE Refresh(listed, answers)
            /\ \/ Rest
               \/ /\ ~Clash(answers)
                  /\ \E again \in launch_capacity(Exclusions(listed, answers)) : again >= want
                  /\ \E permitted \in 1..want : desired' = workers + permitted
                  /\ phase' = "list"
                  /\ UNCHANGED <<workers, queue>>
  /\ UNCHANGED <<config, fleet>>

(* reconcile_needle_workers up to its first command: the adapter check,    *)
(* the session list, the seeds.  An unavailable demand document, a failed  *)
(* check or a refused stop ends the cycle.                                 *)
List(ready, running) ==
  /\ phase = "list"
  /\ LET have == Cardinality(sessions)
         seeds == IF seeded THEN seed_order(Seedable(ready), running)
                  ELSE IF Home \in excluded THEN <<>> ELSE [k \in 1..MaxId |-> Home]
         todo == IF desired > have THEN Launches(seeds) ELSE stop_candidates(have - desired)
     IN  IF desired = have \/ todo = <<>> THEN Rest
         ELSE /\ phase' = IF desired > have THEN "launch" ELSE "stop"
              /\ queue' = todo
              /\ UNCHANGED <<workers, desired>>
  /\ UNCHANGED <<config, fleet, excluded, kept>>

ListFails == phase = "list" /\ Rest /\ UNCHANGED <<config, fleet, excluded, kept>>

Advance == IF Len(queue) = 1 THEN Rest
           ELSE queue' = Tail(queue) /\ UNCHANGED <<phase, workers, desired>>

(* External: `needle run --identifier` starts the session, `needle stop`   *)
(* stops every session whose name contains the given one.                  *)
Started == sessions' = sessions \cup {Head(queue).id} /\ UNCHANGED <<attached, beats>>
Stopped ==
  LET hit == {i \in sessions : i = Head(queue).id \/ ContainsName(i, Head(queue).id)}
  IN  sessions' = sessions \ hit /\ attached' = attached \ hit /\ UNCHANGED beats

LaunchNext == /\ phase = "launch" /\ Started /\ Advance
              /\ UNCHANGED <<config, excluded, kept>>
StopNext == /\ phase = "stop" /\ Stopped /\ Advance
            /\ UNCHANGED <<config, excluded, kept>>

(* A command fails or times out, with or without having had its effect;    *)
(* what was done before it stays done.                                     *)
CommandFails ==
  /\ phase \in {"launch", "stop"}
  /\ \/ UNCHANGED fleet
     \/ phase = "launch" /\ Started
     \/ phase = "stop" /\ Stopped
  /\ Rest
  /\ UNCHANGED <<config, excluded, kept>>

(* The governor stops between two steps and starts again.  Startup refuses *)
(* a clash; the first cycle's pull stands for its refresh.                 *)
Restart == phase # "pull" /\ Rest /\ UNCHANGED <<config, fleet, excluded, kept>>

(* External: workers, their heartbeats, and an operator at the terminal.   *)
Exits(i) == /\ i \in sessions
            /\ sessions' = sessions \ {i} /\ attached' = attached \ {i}
            /\ UNCHANGED <<config, beats, excluded, kept, governor>>
Beats(i) == /\ i \in sessions \ beats /\ beats' = beats \cup {i}
            /\ UNCHANGED <<config, sessions, attached, excluded, kept, governor>>
Stale(i) == /\ i \in beats /\ beats' = beats \ {i}
            /\ UNCHANGED <<config, sessions, attached, excluded, kept, governor>>
Attaches(i) == /\ i \in sessions
               /\ attached' = IF i \in attached THEN attached \ {i} ELSE attached \cup {i}
               /\ UNCHANGED <<config, sessions, beats, excluded, kept, governor>>

Next ==
  \/ phase = "pull" /\ \E listed \in SUBSET Repos, answers \in Answers : Pull(listed, answers)
  \/ \E d \in 0..MaxWorkers : Observe(d)
  \/ phase = "gate" /\ \E listed \in SUBSET Repos, answers \in Answers : Gate(listed, answers)
  \/ phase = "list" /\ \E ready \in Demands, running \in [Repos -> 0..1] : List(ready, running)
  \/ ListFails \/ LaunchNext \/ StopNext \/ CommandFails \/ Restart
  \/ \E i \in Ids : Exits(i) \/ Beats(i) \/ Stale(i) \/ Attaches(i)

Spec == Init /\ [][Next]_vars

-----------------------------------------------------------------------------
(* However late the heartbeats are, whatever commands failed and whenever  *)
(* the governor restarted, the pool never has more sessions than           *)
(* max_workers: the actuator counts sessions again instead of adding the   *)
(* decision's difference to what the observer saw.                         *)
CeilingHolds == Cardinality(sessions) <= MaxWorkers

(* Stopping a worker stops that worker only, although `needle stop` matches*)
(* by substring: no step takes away two sessions.                          *)
StopsOnlyChosen == [][Cardinality(sessions \ sessions') <= 1]_vars

(* No worker is started in a workspace that the last complete pull gave to *)
(* another host, through failed and partial pulls, prefix clashes and      *)
(* restarts since.                                                         *)
KeepsOut == [][\A i \in sessions' \ sessions : Head(queue).repo \notin kept]_vars

=============================================================================
