----------------------------- MODULE FleetProofs -----------------------------
(***************************************************************************)
(* One elastic fleet.  Its NEEDLE pool never exceeds max_workers, stops    *)
(* only the workers it chose and starts none in a workspace another host   *)
(* keeps: for any pool, peers, repositories, demand and naming base,       *)
(* however late heartbeats are, whichever commands fail and whenever the   *)
(* governor restarts.  The saturation controller enlarges it on evidence   *)
(* only and takes back what did not help: for any policy and any samples.  *)
(*                                                                         *)
(* CommandInv says what a command still in the queue may assume of the     *)
(* sessions and the exclusions; the rest is what seed_order,               *)
(* stop_candidates and resolve_workspace_overlap return.  SatInv says that *)
(* the state of the experiments is well formed; what matters is Justified, *)
(* the contract of every branch of apply_zai_saturation.                   *)
(*                                                                         *)
(* The last two sections are about what the pool takes for granted: a      *)
(* worker name belongs to one pool of one host, and a repository to one    *)
(* host, for any texts and any number of hosts.                            *)
(***************************************************************************)
EXTENDS NeedleFleet, Saturation, CountLemmas, SequenceTheorems

CONSTANTS
  Lower, Upper, Digit,             \* of Identity
  MaxSeconds, HomePath,            \* of Config
  MaxCount, SkewTolerance, Rank    \* of PeerRecords

Cfg == INSTANCE Config WITH Home <- HomePath
Rec == INSTANCE PeerRecords WITH Home <- HomePath

-----------------------------------------------------------------------------
(* seed_order: jobs are seeded one by one until none is left.              *)
LEMMA NextSeedReady ==
  ASSUME NEW left \in [Repos -> Nat], NEW load \in [Repos -> Nat], SumOver(left, Repos) # 0
  PROVE  NextSeed(left, load) \in Repos /\ left[NextSeed(left, load)] > 0
<1> DEFINE ready == {r \in Repos : left[r] > 0}
           loads == {load[r] : r \in ready}
<1>1. ready # {}
  <2> SUFFICES ASSUME ready = {}
               PROVE  FALSE
    OBVIOUS
  <2>1. \A r \in Repos : left[r] = 0
    OBVIOUS
  <2> QED BY <2>1, NeedleAssumption, SumZero
<1>2. PICK low \in loads : \A m \in loads : low <= m
  <2>1. loads \in SUBSET Nat /\ loads # {}
    BY <1>1
  <2> HIDE DEF loads
  <2> QED BY <2>1, LeastNatural
<1> DEFINE lowest == {r \in ready : load[r] = low}
<1>3. PICK r \in lowest : \A q \in lowest : r <= q
  <2>1. lowest \in SUBSET Nat /\ lowest # {}
    BY <1>2, NeedleAssumption
  <2> HIDE DEF lowest
  <2> QED BY <2>1, LeastNatural
<1>4. \A q \in Repos : left[q] > 0 => load[r] < load[q] \/ (load[r] = load[q] /\ r <= q)
  <2> SUFFICES ASSUME NEW q \in Repos, left[q] > 0
               PROVE  load[r] < load[q] \/ (load[r] = load[q] /\ r <= q)
    OBVIOUS
  <2>1. low <= load[q] /\ load[r] = low /\ load[q] \in Nat /\ low \in Nat
    BY <1>2
  <2>2. CASE load[q] = low
    BY <1>3, <2>1, <2>2
  <2> QED BY <2>1, <2>2
<1>5. r \in Repos /\ left[r] > 0
  OBVIOUS
<1> QED BY <1>4, <1>5 DEF NextSeed

(* What has been seeded after n turns: only jobs that were ready.          *)
Seeding(ready, n, b) ==
  /\ b.left \in [Repos -> Nat] /\ b.running \in [Repos -> Nat] /\ b.seeds \in Seq(Repos)
  /\ \A r \in Repos : b.left[r] <= ready[r]
  /\ SumOver(b.left, Repos) + n = SumOver(ready, Repos)
  /\ \A k \in DOMAIN b.seeds : ready[b.seeds[k]] > 0

LEMMA SeedOneSeeds ==
  ASSUME NEW ready \in [Repos -> Nat], NEW n \in Nat, NEW b, Seeding(ready, n, b),
         n < SumOver(ready, Repos)
  PROVE  Seeding(ready, n + 1, SeedOne(b))
<1> DEFINE r == NextSeed(b.left, b.running)
           left == [b.left EXCEPT ![r] = @ - 1]
           load == [b.running EXCEPT ![r] = @ + 1]
           seeds == Append(b.seeds, r)
<1>0. /\ b.left \in [Repos -> Nat] /\ b.running \in [Repos -> Nat] /\ b.seeds \in Seq(Repos)
      /\ \A q \in Repos : b.left[q] <= ready[q]
      /\ SumOver(b.left, Repos) + n = SumOver(ready, Repos)
      /\ \A k \in DOMAIN b.seeds : ready[b.seeds[k]] > 0
  BY DEF Seeding
<1>1. IsFiniteSet(Repos) /\ SumOver(b.left, Repos) \in Nat
  BY <1>0, NeedleAssumption, SumOverNat
<1>2. SumOver(b.left, Repos) # 0
  BY <1>0, <1>1
<1>3. r \in Repos /\ b.left[r] > 0
  BY <1>0, <1>2, NextSeedReady
<1> HIDE DEF r
<1>4. left \in [Repos -> Nat] /\ load \in [Repos -> Nat] /\ seeds \in Seq(Repos)
  BY <1>0, <1>3
<1>5. \A q \in Repos : left[q] <= ready[q]
  BY <1>0, <1>3
<1>6. SumOver(left, Repos) + 1 = SumOver(b.left, Repos)
  <2>1. [left EXCEPT ![r] = @ + 1] = b.left
    BY <1>0, <1>3
  <2> HIDE DEF left
  <2>2. SumOver([left EXCEPT ![r] = @ + 1], Repos) = SumOver(left, Repos) + 1
    BY <1>1, <1>3, <1>4, SumIncremented
  <2> QED BY <2>1, <2>2
<1>7. SumOver(left, Repos) + (n + 1) = SumOver(ready, Repos)
  <2>1. SumOver(left, Repos) \in Nat
    <3> HIDE DEF left
    <3> QED BY <1>1, <1>4, SumOverNat
  <2> HIDE DEF left
  <2> QED BY <1>0, <1>1, <1>6, <2>1
<1>8. \A k \in DOMAIN seeds : ready[seeds[k]] > 0
  <2>1. ready[r] > 0
    BY <1>0, <1>3
  <2>2. DOMAIN seeds = 1..(Len(b.seeds) + 1) /\ DOMAIN b.seeds = 1..Len(b.seeds) /\ Len(b.seeds) \in Nat
    BY <1>0, <1>3
  <2>3. ASSUME NEW k \in DOMAIN seeds, k <= Len(b.seeds)
        PROVE  ready[seeds[k]] > 0
    <3>1. k \in DOMAIN b.seeds
      BY <2>2, <2>3
    <3>2. seeds[k] = b.seeds[k]
      BY <1>0, <1>3, <2>2, <3>1
    <3> QED BY <1>0, <3>1, <3>2
  <2>4. seeds[Len(b.seeds) + 1] = r
    BY <1>0, <1>3
  <2> HIDE DEF seeds
  <2> QED BY <2>1, <2>2, <2>3, <2>4
<1>9. /\ SeedOne(b).left = left /\ SeedOne(b).running = load /\ SeedOne(b).seeds = seeds
  BY DEF SeedOne, r
<1> HIDE DEF left, load, seeds
<1> QED BY <1>4, <1>5, <1>7, <1>8, <1>9 DEF Seeding

(* The recursion of seed_order has a solution.                             *)
SeedsUpTo(ready, load, m, f) ==
  f = [n \in 0..m |-> IF n = 0 THEN [left |-> ready, running |-> load, seeds |-> <<>>]
                      ELSE SeedOne(f[n - 1])]

LEMMA SeedsExist ==
  ASSUME NEW ready, NEW load, NEW jobs \in Nat
  PROVE  \E f : SeedsUpTo(ready, load, jobs, f)
<1> DEFINE start == [left |-> ready, running |-> load, seeds |-> <<>>]
           G == {m \in Nat : \E f : SeedsUpTo(ready, load, m, f)}
<1>1. 0 \in G
  <2> DEFINE f == [n \in 0..0 |-> start]
  <2>1. f = [n \in 0..0 |-> IF n = 0 THEN start ELSE SeedOne(f[n - 1])]
    OBVIOUS
  <2>2. SeedsUpTo(ready, load, 0, f)
    <3> HIDE DEF f
    <3> QED BY <2>1 DEF SeedsUpTo
  <2> QED BY <2>2
<1>2. ASSUME NEW m \in Nat, m \in G
      PROVE  m + 1 \in G
  <2>1. PICK f : SeedsUpTo(ready, load, m, f)
    BY <1>2
  <2>2. \A n \in 0..m : f[n] = IF n = 0 THEN start ELSE SeedOne(f[n - 1])
    BY <2>1 DEF SeedsUpTo
  <2> DEFINE g == [n \in 0..(m + 1) |-> IF n <= m THEN f[n] ELSE SeedOne(f[m])]
  <2>3. ASSUME NEW n \in 0..(m + 1)
        PROVE  g[n] = IF n = 0 THEN start ELSE SeedOne(g[n - 1])
    <3>1. CASE n = 0
      BY <2>2, <3>1
    <3>2. CASE n # 0 /\ n <= m
      <4>1. n - 1 \in 0..(m + 1) /\ n - 1 <= m /\ n \in 0..m
        BY <3>2
      <4>2. g[n - 1] = f[n - 1] /\ g[n] = f[n]
        BY <3>2, <4>1
      <4> HIDE DEF g
      <4> QED BY <2>2, <3>2, <4>1, <4>2
    <3>3. CASE n = m + 1
      <4>1. g[m] = f[m] /\ g[n] = SeedOne(f[m]) /\ n - 1 = m /\ n # 0
        BY <3>3
      <4> HIDE DEF g
      <4> QED BY <4>1
    <3> HIDE DEF g
    <3> QED BY <3>1, <3>2, <3>3
  <2>4. g = [n \in 0..(m + 1) |-> g[n]]
    OBVIOUS
  <2> HIDE DEF g
  <2>5. g = [n \in 0..(m + 1) |-> IF n = 0 THEN start ELSE SeedOne(g[n - 1])]
    BY <2>3, <2>4
  <2>6. SeedsUpTo(ready, load, m + 1, g)
    BY <2>5 DEF SeedsUpTo
  <2> QED BY <2>6
<1> HIDE DEF G
<1>3. Nat \subseteq G
  BY <1>1, <1>2, NatSetInduction
<1> QED BY <1>3 DEF G

LEMMA SeedOrderIsReady ==
  ASSUME NEW ready \in [Repos -> Nat], NEW load \in [Repos -> Nat]
  PROVE  LET seeds == seed_order(ready, load)
         IN  seeds \in Seq(Repos) /\ \A k \in DOMAIN seeds : ready[seeds[k]] > 0
<1> DEFINE jobs == SumOver(ready, Repos)
           start == [left |-> ready, running |-> load, seeds |-> <<>>]
           picked == CHOOSE f : SeedsUpTo(ready, load, jobs, f)
           G == {n \in Nat : n <= jobs => Seeding(ready, n, picked[n])}
<1>0. jobs \in Nat
  BY NeedleAssumption, SumOverNat
<1>1. seed_order(ready, load) = picked[jobs].seeds
  BY DEF seed_order, SeedsUpTo
<1> HIDE DEF jobs
<1>2. SeedsUpTo(ready, load, jobs, picked)
  BY <1>0, SeedsExist
<1> HIDE DEF picked
<1>3. \A n \in 0..jobs : picked[n] = IF n = 0 THEN start ELSE SeedOne(picked[n - 1])
  BY <1>2 DEF SeedsUpTo
<1>4. 0 \in G
  <2>1. picked[0] = start
    BY <1>0, <1>3
  <2>2. Seeding(ready, 0, start)
    BY <1>0 DEF Seeding, jobs
  <2> QED BY <2>1, <2>2
<1>5. ASSUME NEW n \in Nat, n \in G
      PROVE  n + 1 \in G
  <2> SUFFICES ASSUME n + 1 <= jobs
               PROVE  Seeding(ready, n + 1, picked[n + 1])
    OBVIOUS
  <2>1. Seeding(ready, n, picked[n])
    BY <1>0, <1>5
  <2>2. picked[n + 1] = SeedOne(picked[n])
    <3>1. n + 1 \in 0..jobs /\ n + 1 # 0 /\ (n + 1) - 1 = n
      BY <1>0
    <3> QED BY <1>3, <3>1
  <2>3. n < jobs
    BY <1>0
  <2> QED BY <2>1, <2>2, <2>3, SeedOneSeeds DEF jobs
<1> HIDE DEF G
<1>6. Nat \subseteq G
  BY <1>4, <1>5, NatSetInduction
<1>7. Seeding(ready, jobs, picked[jobs])
  BY <1>0, <1>6 DEF G
<1> QED BY <1>1, <1>7 DEF Seeding

-----------------------------------------------------------------------------
(* resolve_workspace_overlap excludes whatever another host keeps.         *)
LEMMA MinIsLeast ==
  ASSUME NEW S \in SUBSET Nat, S # {}
  PROVE  Min(S) \in S /\ \A y \in S : Min(S) <= y
<1>1. \E n \in S : \A m \in S : n <= m
  BY LeastNatural
<1> QED BY <1>1 DEF Min

LEMMA KeptIsExcluded ==
  ASSUME NEW listed, NEW answers
  PROVE  KeptElsewhere(listed, answers) \subseteq resolve_workspace_overlap(listed, answers)
<1> SUFFICES ASSUME NEW r \in KeptElsewhere(listed, answers)
             PROVE  r \in resolve_workspace_overlap(listed, answers)
  OBVIOUS
<1>1. r \in listed /\ Claimants(answers, r) # {}
  BY DEF KeptElsewhere, Claimants
<1> DEFINE hosts == Claimants(answers, r) \cup {Local}
<1>2. workspace_owner(r, hosts) # Local
  <2>1. CASE r \in DOMAIN RepoOwners
    BY <2>1 DEF KeptElsewhere, workspace_owner
  <2>2. CASE r \notin DOMAIN RepoOwners
    <3>1. PICK q \in Peers : r \in answers[q].lists /\ q < Local
      BY <2>2 DEF KeptElsewhere
    <3>2. hosts \in SUBSET Nat /\ hosts # {} /\ q \in hosts /\ Local \in Nat /\ q \in Nat
      BY <3>1, NeedleAssumption DEF Claimants
    <3> HIDE DEF hosts
    <3>3. Min(hosts) \in Nat /\ Min(hosts) <= q
      BY <3>2, MinIsLeast
    <3> QED BY <2>2, <3>1, <3>2, <3>3 DEF workspace_owner
  <2> QED BY <2>1, <2>2
<1> QED BY <1>1, <1>2 DEF resolve_workspace_overlap

-----------------------------------------------------------------------------
(* What the commands still to run may assume.                              *)
IsQueue(q) == \E C : q \in Seq(C)

LaunchesAreDue ==
  /\ IsQueue(queue) /\ queue # <<>>
  /\ Cardinality(sessions) + Len(queue) <= MaxWorkers
  /\ \A k \in 1..Len(queue) : queue[k].repo \notin excluded

StopsAreDue ==
  /\ IsQueue(queue) /\ queue # <<>>
  /\ \A k \in 1..Len(queue), m \in sessions : ~ContainsName(m, queue[k].id)

CommandInv ==
  /\ IsFiniteSet(sessions) /\ IsFiniteSet(beats)
  /\ Cardinality(sessions) <= MaxWorkers
  /\ workers \in Nat /\ desired \in 0..MaxWorkers
  /\ kept \subseteq excluded
  /\ phase = "gate" => workers < desired
  /\ phase = "launch" => LaunchesAreDue
  /\ phase = "stop" => StopsAreDue

LEMMA Counts ==
  /\ MinWorkers \in Nat /\ MaxWorkers \in Nat /\ StepUp \in Nat /\ MaxReady \in Nat /\ MaxId \in Nat
  /\ MinWorkers <= MaxWorkers /\ IsFiniteSet(Repos) /\ Home \in Repos
BY NeedleAssumption

LEMMA MappedIsQueue ==
  ASSUME NEW n \in Nat, NEW f, f = [k \in 1..n |-> f[k]]
  PROVE  f \in Seq({f[k] : k \in 1..n}) /\ Len(f) = n
OBVIOUS

LEMMA LaunchesFit ==
  ASSUME IsFiniteSet(sessions), desired \in 0..MaxWorkers, desired > Cardinality(sessions),
         NEW seeds \in Seq(Repos), \A k \in 1..Len(seeds) : seeds[k] \notin excluded
  PROVE  LET q == Launches(seeds)
         IN  /\ IsQueue(q)
             /\ Cardinality(sessions) + Len(q) <= MaxWorkers
             /\ \A k \in 1..Len(q) : q[k].repo \notin excluded
<1> DEFINE free == Len(FreeIds)
           some == {Missing, Len(seeds), free}
           n == Min(some)
           q == Launches(seeds)
<1>0. Cardinality(sessions) \in Nat /\ desired \in Nat /\ MaxWorkers \in Nat
  BY Counts, FS_CardinalityType
<1>1. free \in Nat
  <2>1. IsFiniteSet(Ids \ sessions)
    <3>1. IsFiniteSet(1..MaxId)
      BY Counts, FS_Interval
    <3> QED BY <3>1, FS_Subset DEF Ids
  <2>2. Cardinality(Ids \ sessions) \in Nat
    BY <2>1, FS_CardinalityType
  <2> QED BY <2>2 DEF FreeIds, InOrder
<1>2. Missing \in Nat /\ Len(seeds) \in Nat
  BY <1>0 DEF Missing
<1> HIDE DEF free
<1>3. n \in Nat /\ n <= Missing /\ n <= Len(seeds)
  <2>1. some \in SUBSET Nat /\ some # {} /\ Missing \in some /\ Len(seeds) \in some
    BY <1>1, <1>2
  <2> HIDE DEF some
  <2> QED BY <2>1, MinIsLeast
<1>4. q = [k \in 1..n |-> [id |-> FreeIds[k], repo |-> seeds[k]]]
  BY DEF Launches, free
<1> HIDE DEF n, q
<1>5. q \in Seq({q[k] : k \in 1..n}) /\ Len(q) = n
  BY <1>3, <1>4, MappedIsQueue
<1>6. IsQueue(q)
  BY <1>5 DEF IsQueue
<1>7. Cardinality(sessions) + Len(q) <= MaxWorkers
  BY <1>0, <1>2, <1>3, <1>5 DEF Missing
<1>8. \A k \in 1..Len(q) : q[k].repo \notin excluded
  BY <1>2, <1>3, <1>4, <1>5
<1> QED BY <1>6, <1>7, <1>8 DEF q

LEMMA StopsAreSafe ==
  ASSUME IsFiniteSet(sessions), NEW n \in Nat, stop_candidates(n) # <<>>
  PROVE  LET q == stop_candidates(n)
         IN  /\ IsQueue(q)
             /\ \A k \in 1..Len(q), m \in sessions : ~ContainsName(m, q[k].id)
<1> DEFINE chosen == SubSeq(Detached, 1, n)
           q == stop_candidates(n)
<1>1. IsFiniteSet(sessions \ attached)
  BY FS_Subset
<1>2. Cardinality(sessions \ attached) \in Nat
  BY <1>1, FS_CardinalityType
<1>3. Detached = [k \in 1..Cardinality(sessions \ attached) |-> Detached[k]]
  <2> DEFINE at(k) == CHOOSE i \in sessions \ attached :
                        Cardinality({j \in sessions \ attached : NameBefore(j, i)}) = k - 1
  <2>1. Detached = [k \in 1..Cardinality(sessions \ attached) |-> at(k)]
    BY DEF Detached, InOrder
  <2> HIDE DEF at
  <2> QED BY <2>1
<1>4. /\ Detached \in Seq({Detached[k] : k \in 1..Cardinality(sessions \ attached)})
      /\ Len(Detached) = Cardinality(sessions \ attached)
  BY <1>2, <1>3, MappedIsQueue
<1>5. /\ n <= Len(Detached)
      /\ \A i \in ToSet(chosen), m \in sessions : ~ContainsName(m, i)
      /\ q = [k \in 1..n |-> [id |-> chosen[k], repo |-> Home]]
  BY DEF stop_candidates
<1>6. DOMAIN chosen = 1..n
  BY <1>2, <1>4, <1>5
<1>7. \A k \in 1..n : chosen[k] \in ToSet(chosen)
  BY <1>6 DEF ToSet
<1> HIDE DEF chosen, q
<1>8. q \in Seq({q[k] : k \in 1..n}) /\ Len(q) = n
  BY <1>5, MappedIsQueue
<1>9. IsQueue(q)
  BY <1>8 DEF IsQueue
<1>10. \A k \in 1..Len(q), m \in sessions : ~ContainsName(m, q[k].id)
  BY <1>5, <1>7, <1>8
<1> QED BY <1>9, <1>10 DEF q

-----------------------------------------------------------------------------
(* The steps that run commands.                                            *)
LEMMA QueueFacts ==
  ASSUME NEW q, IsQueue(q), q # <<>>
  PROVE  /\ Len(q) \in Nat /\ Len(q) >= 1 /\ Head(q) = q[1] /\ 1 \in 1..Len(q)
         /\ Len(q) # 1 => /\ IsQueue(Tail(q)) /\ Tail(q) # <<>> /\ Len(Tail(q)) < Len(q)
                          /\ \A k \in 1..Len(Tail(q)) :
                               k + 1 \in 1..Len(q) /\ Tail(q)[k] = q[k + 1]
<1>1. PICK C : q \in Seq(C)
  BY DEF IsQueue
<1>2. Len(q) \in Nat /\ Len(q) >= 1 /\ Head(q) = q[1] /\ 1 \in 1..Len(q)
  BY <1>1
<1>3. ASSUME Len(q) # 1
      PROVE  /\ IsQueue(Tail(q)) /\ Tail(q) # <<>> /\ Len(Tail(q)) < Len(q)
             /\ \A k \in 1..Len(Tail(q)) : k + 1 \in 1..Len(q) /\ Tail(q)[k] = q[k + 1]
  <2>1. Tail(q) \in Seq(C) /\ Len(Tail(q)) = Len(q) - 1
    BY <1>1
  <2>2. \A k \in 1..Len(Tail(q)) : k + 1 \in 1..Len(q) /\ Tail(q)[k] = q[k + 1]
    BY <1>1, <1>2, <2>1
  <2>3. Tail(q) # <<>>
    BY <1>2, <1>3, <2>1
  <2> QED BY <1>2, <2>1, <2>2, <2>3 DEF IsQueue
<1> QED BY <1>2, <1>3

LEMMA AddedCounts ==
  ASSUME NEW S, IsFiniteSet(S), NEW x
  PROVE  /\ IsFiniteSet(S \cup {x}) /\ Cardinality(S) \in Nat /\ Cardinality(S \cup {x}) \in Nat
         /\ Cardinality(S \cup {x}) <= Cardinality(S) + 1
BY FS_AddElement, FS_CardinalityType

LEMMA RemovedCounts ==
  ASSUME NEW S, IsFiniteSet(S), NEW T, T \subseteq S
  PROVE  /\ IsFiniteSet(T) /\ Cardinality(T) \in Nat /\ Cardinality(S) \in Nat
         /\ Cardinality(T) <= Cardinality(S)
BY FS_Subset, FS_CardinalityType

LEMMA StartedCounts ==
  ASSUME CommandInv, phase = "launch", Started
  PROVE  /\ IsFiniteSet(sessions') /\ Cardinality(sessions') <= MaxWorkers
         /\ Cardinality(sessions') \in Nat /\ Cardinality(sessions') <= Cardinality(sessions) + 1
<1>1. LaunchesAreDue /\ MaxWorkers \in Nat /\ IsFiniteSet(sessions)
  BY Counts DEF CommandInv
<1>2. Len(queue) \in Nat /\ Len(queue) >= 1
  BY <1>1, QueueFacts DEF LaunchesAreDue
<1>3. sessions' = sessions \cup {Head(queue).id}
  BY DEF Started
<1>4. /\ IsFiniteSet(sessions') /\ Cardinality(sessions) \in Nat /\ Cardinality(sessions') \in Nat
      /\ Cardinality(sessions') <= Cardinality(sessions) + 1
  BY <1>1, <1>3, AddedCounts
<1> QED BY <1>1, <1>2, <1>4 DEF LaunchesAreDue

(* `needle stop` matches nothing but the session it names.                 *)
LEMMA StoppedOne ==
  ASSUME CommandInv, phase = "stop", Stopped
  PROVE  sessions' = sessions \ {Head(queue).id}
<1>1. StopsAreDue
  BY DEF CommandInv
<1>2. Head(queue) = queue[1] /\ 1 \in 1..Len(queue)
  BY <1>1, QueueFacts DEF StopsAreDue
<1>3. \A m \in sessions : ~ContainsName(m, Head(queue).id)
  BY <1>1, <1>2 DEF StopsAreDue
<1> QED BY <1>3 DEF Stopped

LEMMA RestKeeps ==
  ASSUME CommandInv, Rest, kept' \subseteq excluded', beats' = beats,
         IsFiniteSet(sessions'), Cardinality(sessions') <= MaxWorkers
  PROVE  CommandInv'
BY Counts DEF CommandInv, Rest

LEMMA RefreshKeeps ==
  ASSUME CommandInv, NEW listed, NEW answers, Refresh(listed, answers)
  PROVE  kept' \subseteq excluded'
BY KeptIsExcluded DEF Refresh, Exclusions, CommandInv

LEMMA LaunchKeeps ==
  CommandInv /\ LaunchNext => CommandInv'
<1> SUFFICES ASSUME CommandInv, LaunchNext
             PROVE  CommandInv'
  OBVIOUS
<1>0. phase = "launch" /\ Started /\ Advance /\ excluded' = excluded /\ kept' = kept /\ beats' = beats
  BY DEF LaunchNext, Started
<1>1. /\ IsFiniteSet(sessions') /\ Cardinality(sessions') <= MaxWorkers
      /\ Cardinality(sessions') \in Nat /\ Cardinality(sessions') <= Cardinality(sessions) + 1
  BY <1>0, StartedCounts
<1>2. CASE Len(queue) = 1
  <2>1. Rest
    BY <1>0, <1>2 DEF Advance
  <2> QED BY <1>0, <1>1, <2>1, RestKeeps DEF CommandInv
<1>3. CASE Len(queue) # 1
  <2>1. queue' = Tail(queue) /\ UNCHANGED <<phase, workers, desired>>
    BY <1>0, <1>3 DEF Advance
  <2>2. LaunchesAreDue
    BY <1>0 DEF CommandInv
  <2>3. /\ Len(queue) \in Nat /\ IsQueue(queue') /\ queue' # <<>> /\ Len(queue') < Len(queue)
        /\ \A k \in 1..Len(queue') : k + 1 \in 1..Len(queue) /\ queue'[k] = queue[k + 1]
    BY <1>3, <2>1, <2>2, QueueFacts DEF LaunchesAreDue
  <2>4. Len(queue') \in Nat
    BY <2>3, QueueFacts
  <2>5. Cardinality(sessions) \in Nat /\ MaxWorkers \in Nat
    BY Counts, FS_CardinalityType DEF CommandInv
  <2>6. Cardinality(sessions') + Len(queue') <= MaxWorkers
    BY <1>1, <2>2, <2>3, <2>4, <2>5 DEF LaunchesAreDue
  <2>7. LaunchesAreDue'
    BY <1>0, <2>2, <2>3, <2>6 DEF LaunchesAreDue
  <2> QED BY <1>0, <1>1, <2>1, <2>7 DEF CommandInv
<1> QED BY <1>2, <1>3

LEMMA StopKeeps ==
  CommandInv /\ StopNext => CommandInv'
<1> SUFFICES ASSUME CommandInv, StopNext
             PROVE  CommandInv'
  OBVIOUS
<1>0. phase = "stop" /\ Stopped /\ Advance /\ excluded' = excluded /\ kept' = kept /\ beats' = beats
  BY DEF StopNext, Stopped
<1>1. sessions' \subseteq sessions /\ IsFiniteSet(sessions') /\ Cardinality(sessions') <= MaxWorkers
  <2>1. sessions' \subseteq sessions /\ IsFiniteSet(sessions) /\ Cardinality(sessions) <= MaxWorkers
    BY <1>0 DEF Stopped, CommandInv
  <2>2. /\ IsFiniteSet(sessions') /\ Cardinality(sessions') \in Nat /\ Cardinality(sessions) \in Nat
        /\ Cardinality(sessions') <= Cardinality(sessions)
    BY <2>1, RemovedCounts
  <2> QED BY <2>1, <2>2, Counts
<1>2. CASE Len(queue) = 1
  <2>1. Rest
    BY <1>0, <1>2 DEF Advance
  <2> QED BY <1>0, <1>1, <2>1, RestKeeps DEF CommandInv
<1>3. CASE Len(queue) # 1
  <2>1. queue' = Tail(queue) /\ UNCHANGED <<phase, workers, desired>>
    BY <1>0, <1>3 DEF Advance
  <2>2. StopsAreDue
    BY <1>0 DEF CommandInv
  <2>3. /\ IsQueue(queue') /\ queue' # <<>>
        /\ \A k \in 1..Len(queue') : k + 1 \in 1..Len(queue) /\ queue'[k] = queue[k + 1]
    BY <1>3, <2>1, <2>2, QueueFacts DEF StopsAreDue
  <2>4. \A k \in 1..Len(queue'), m \in sessions' : ~ContainsName(m, queue'[k].id)
    BY <1>1, <2>2, <2>3 DEF StopsAreDue
  <2>5. StopsAreDue'
    BY <2>3, <2>4 DEF StopsAreDue, ContainsName
  <2> QED BY <1>0, <1>1, <2>1, <2>5 DEF CommandInv
<1> QED BY <1>2, <1>3

-----------------------------------------------------------------------------
(* The steps that decide.                                                  *)
LEMMA PullKeeps ==
  ASSUME CommandInv, NEW listed, NEW answers, Pull(listed, answers)
  PROVE  CommandInv'
<1>1. kept' \subseteq excluded'
  BY RefreshKeeps DEF Pull, CommandInv
<1> QED BY <1>1 DEF Pull, CommandInv, fleet

LEMMA ObserveKeeps ==
  ASSUME CommandInv, NEW d \in 0..MaxWorkers, Observe(d)
  PROVE  CommandInv'
<1> DEFINE n == Cardinality(beats)
<1>0. kept' \subseteq excluded' /\ sessions' = sessions /\ beats' = beats
  BY DEF Observe, CommandInv, fleet
<1>1. n \in Nat
  BY FS_CardinalityType DEF CommandInv
<1>2. Reconciled(n) \in Nat
  BY <1>1, Counts DEF Reconciled
<1>3. CASE Rest
  BY <1>0, <1>3, RestKeeps DEF CommandInv
<1>4. CASE /\ d <= MaxWorkers /\ d # Reconciled(n)
           /\ workers' = Reconciled(n) /\ desired' = d
           /\ phase' = IF d > Reconciled(n) THEN "gate" ELSE "list"
  <2> HIDE DEF n
  <2>1. workers' \in Nat /\ desired' \in 0..MaxWorkers
    BY <1>2, <1>4
  <2>2. phase' = "gate" => workers' < desired'
    BY <1>2, <1>4
  <2>3. phase' \notin {"launch", "stop"}
    BY <1>4
  <2> QED BY <1>0, <2>1, <2>2, <2>3 DEF CommandInv
<1> QED BY <1>3, <1>4 DEF Observe

LEMMA CapacityNat ==
  ASSUME NEW ex
  PROVE  launch_capacity(ex) \subseteq Nat
BY Counts DEF launch_capacity

LEMMA GateKeeps ==
  ASSUME CommandInv, NEW listed, NEW answers, Gate(listed, answers)
  PROVE  CommandInv'
<1>0. phase = "gate" /\ sessions' = sessions /\ beats' = beats
  BY DEF Gate, fleet
<1>1. PICK room \in launch_capacity(excluded) :
        LET want == Min({desired - workers, room, StepUp}) IN
        IF want = 0 THEN Rest /\ UNCHANGED <<excluded, kept>>
        ELSE /\ IF Clash(answers) THEN UNCHANGED <<excluded, kept>>
                                  ELSE Refresh(listed, answers)
             /\ \/ Rest
                \/ /\ \E permitted \in 1..want : desired' = workers + permitted
                   /\ phase' = "list"
                   /\ UNCHANGED <<workers, queue>>
  BY DEF Gate
<1> DEFINE some == {desired - workers, room, StepUp}
           want == Min(some)
<1>2. kept' \subseteq excluded'
  BY <1>1, RefreshKeeps DEF CommandInv
<1>3. workers \in Nat /\ desired \in 0..MaxWorkers /\ workers < desired
  BY <1>0 DEF CommandInv
<1>4. want \in Nat /\ want <= desired - workers
  <2>1. some \in SUBSET Nat /\ some # {} /\ desired - workers \in some
    BY <1>3, Counts, CapacityNat
  <2> HIDE DEF some
  <2> QED BY <2>1, MinIsLeast
<1>5. CASE Rest
  BY <1>0, <1>2, <1>5, RestKeeps DEF CommandInv
<1>6. CASE ~Rest
  <2>1. PICK permitted \in 1..want : desired' = workers + permitted
    BY <1>1, <1>6
  <2>2. phase' = "list" /\ workers' = workers
    BY <1>1, <1>6
  <2> HIDE DEF want
  <2>3. desired' \in 0..MaxWorkers
    BY <1>3, <1>4, <2>1, Counts
  <2> QED BY <1>0, <1>2, <1>3, <2>2, <2>3 DEF CommandInv
<1> QED BY <1>5, <1>6

LEMMA SeedsAreAllowed ==
  ASSUME NEW ready \in Demands, NEW load \in [Repos -> 0..1]
  PROVE  LET seeds == IF seeded THEN seed_order(Seedable(ready), load)
                      ELSE IF Home \in excluded THEN <<>> ELSE [k \in 1..MaxId |-> Home]
         IN  seeds \in Seq(Repos) /\ \A k \in 1..Len(seeds) : seeds[k] \notin excluded
<1> DEFINE order == seed_order(Seedable(ready), load)
           home == [k \in 1..MaxId |-> Home]
<1>1. order \in Seq(Repos) /\ \A k \in 1..Len(order) : order[k] \notin excluded
  <2>1. Seedable(ready) \in [Repos -> Nat] /\ load \in [Repos -> Nat]
    BY Counts DEF Seedable, Demands
  <2>2. order \in Seq(Repos)
    BY <2>1, SeedOrderIsReady
  <2>3. \A k \in DOMAIN order : Seedable(ready)[order[k]] > 0
    BY <2>1, SeedOrderIsReady
  <2> HIDE DEF order
  <2>4. \A k \in 1..Len(order) : k \in DOMAIN order /\ order[k] \in Repos
    BY <2>2
  <2>5. \A r \in Repos : r \in excluded => Seedable(ready)[r] = 0
    BY DEF Seedable
  <2> QED BY <2>2, <2>3, <2>4, <2>5
<1>2. home \in Seq(Repos) /\ \A k \in 1..Len(home) : home[k] = Home
  BY Counts
<1>3. <<>> \in Seq(Repos) /\ 1..Len(<<>>) = {}
  OBVIOUS
<1> HIDE DEF order, home
<1>4. CASE seeded
  BY <1>1, <1>4 DEF order
<1>5. CASE ~seeded /\ Home \in excluded
  BY <1>3, <1>5
<1>6. CASE ~seeded /\ Home \notin excluded
  BY <1>2, <1>6 DEF home
<1> QED BY <1>4, <1>5, <1>6

LEMMA ListKeeps ==
  ASSUME CommandInv, NEW ready \in Demands, NEW load \in [Repos -> 0..1], List(ready, load)
  PROVE  CommandInv'
<1> DEFINE have == Cardinality(sessions)
           seeds == IF seeded THEN seed_order(Seedable(ready), load)
                    ELSE IF Home \in excluded THEN <<>> ELSE [k \in 1..MaxId |-> Home]
           todo == IF desired > have THEN Launches(seeds) ELSE stop_candidates(have - desired)
<1>0. /\ kept' = kept /\ excluded' = excluded /\ sessions' = sessions /\ beats' = beats
      /\ kept \subseteq excluded
      /\ have \in Nat /\ desired \in 0..MaxWorkers /\ desired \in Nat /\ IsFiniteSet(sessions)
  BY FS_CardinalityType, Counts DEF List, CommandInv, fleet
<1>1. \/ Rest
      \/ /\ desired # have /\ todo # <<>> /\ queue' = todo
         /\ phase' = IF desired > have THEN "launch" ELSE "stop"
         /\ UNCHANGED <<workers, desired>>
  BY DEF List
<1>2. CASE Rest
  BY <1>0, <1>2, RestKeeps DEF CommandInv
<1>3. CASE ~Rest
  <2>0. /\ desired # have /\ todo # <<>> /\ queue' = todo
        /\ phase' = IF desired > have THEN "launch" ELSE "stop"
        /\ UNCHANGED <<workers, desired>>
    BY <1>1, <1>3
  <2>1. seeds \in Seq(Repos) /\ \A k \in 1..Len(seeds) : seeds[k] \notin excluded
    BY SeedsAreAllowed
  <2> HIDE DEF seeds
  <2>2. CASE desired > have
    <3>1. queue' = Launches(seeds) /\ queue' # <<>> /\ phase' = "launch"
      BY <2>0, <2>2
    <3>2. /\ IsQueue(queue') /\ Cardinality(sessions) + Len(queue') <= MaxWorkers
          /\ \A k \in 1..Len(queue') : queue'[k].repo \notin excluded
      BY <1>0, <2>1, <2>2, <3>1, LaunchesFit
    <3>3. LaunchesAreDue'
      BY <1>0, <3>1, <3>2 DEF LaunchesAreDue
    <3> QED BY <1>0, <2>0, <3>1, <3>3 DEF CommandInv
  <2>3. CASE ~(desired > have)
    <3>1. queue' = stop_candidates(have - desired) /\ queue' # <<>> /\ phase' = "stop"
      BY <2>0, <2>3
    <3>2. have - desired \in Nat
      BY <1>0, <2>3
    <3>3. /\ IsQueue(queue')
          /\ \A k \in 1..Len(queue'), m \in sessions : ~ContainsName(m, queue'[k].id)
      BY <1>0, <3>1, <3>2, StopsAreSafe
    <3>4. StopsAreDue'
      BY <1>0, <3>1, <3>3 DEF StopsAreDue, ContainsName
    <3> QED BY <1>0, <2>0, <3>1, <3>4 DEF CommandInv
  <2> QED BY <2>2, <2>3
<1> QED BY <1>2, <1>3

-----------------------------------------------------------------------------
LEMMA InitCommands ==
  Init => CommandInv
BY Counts, FS_EmptySet DEF Init, CommandInv

(* Sessions that end, heartbeats and operators disturb no command.         *)
LEMMA OutsideKeeps ==
  ASSUME CommandInv, NEW i, Exits(i) \/ Beats(i) \/ Stale(i) \/ Attaches(i)
  PROVE  CommandInv'
<1>0. /\ UNCHANGED <<phase, workers, desired, queue, excluded, kept>>
      /\ sessions' \subseteq sessions
      /\ beats' \in {beats, beats \cup {i}, beats \ {i}}
  BY DEF Exits, Beats, Stale, Attaches, governor
<1>1. /\ IsFiniteSet(sessions') /\ Cardinality(sessions') \in Nat /\ Cardinality(sessions) \in Nat
      /\ Cardinality(sessions') <= Cardinality(sessions)
  BY <1>0, RemovedCounts DEF CommandInv
<1>2. IsFiniteSet(beats')
  <2>1. IsFiniteSet(beats \cup {i}) /\ IsFiniteSet(beats \ {i}) /\ IsFiniteSet(beats)
    BY FS_AddElement, FS_Subset DEF CommandInv
  <2> QED BY <1>0, <2>1
<1>3. ASSUME phase = "launch"
      PROVE  LaunchesAreDue'
  <2>1. LaunchesAreDue /\ MaxWorkers \in Nat
    BY <1>3, Counts DEF CommandInv
  <2>2. Len(queue) \in Nat
    BY <2>1, QueueFacts DEF LaunchesAreDue
  <2> QED BY <1>0, <1>1, <2>1, <2>2 DEF LaunchesAreDue
<1>4. ASSUME phase = "stop"
      PROVE  StopsAreDue'
  BY <1>0, <1>4 DEF CommandInv, StopsAreDue, ContainsName
<1> QED BY <1>0, <1>1, <1>2, <1>3, <1>4, Counts DEF CommandInv

LEMMA FailureKeeps ==
  ASSUME CommandInv, CommandFails
  PROVE  CommandInv'
<1>0. Rest /\ excluded' = excluded /\ kept' = kept /\ beats' = beats
  BY DEF CommandFails, fleet, Started, Stopped
<1>1. CASE UNCHANGED fleet
  BY <1>0, <1>1, RestKeeps DEF CommandInv, fleet
<1>2. CASE phase = "launch" /\ Started
  BY <1>0, <1>2, StartedCounts, RestKeeps DEF CommandInv
<1>3. CASE phase = "stop" /\ Stopped
  <2>1. sessions' \subseteq sessions
    BY <1>3 DEF Stopped
  <2>2. /\ IsFiniteSet(sessions') /\ Cardinality(sessions') \in Nat /\ Cardinality(sessions) \in Nat
        /\ Cardinality(sessions') <= Cardinality(sessions)
    BY <2>1, RemovedCounts DEF CommandInv
  <2>3. Cardinality(sessions') <= MaxWorkers
    BY <2>2, Counts DEF CommandInv
  <2> QED BY <1>0, <2>2, <2>3, RestKeeps DEF CommandInv
<1> QED BY <1>1, <1>2, <1>3 DEF CommandFails

LEMMA NextCommands ==
  CommandInv /\ [Next]_vars => CommandInv'
<1> SUFFICES ASSUME CommandInv, [Next]_vars
             PROVE  CommandInv'
  OBVIOUS
<1>1. ASSUME NEW listed \in SUBSET Repos, NEW answers \in Answers, Pull(listed, answers)
      PROVE  CommandInv'
  BY <1>1, PullKeeps
<1>2. ASSUME NEW d \in 0..MaxWorkers, Observe(d)
      PROVE  CommandInv'
  BY <1>2, ObserveKeeps
<1>3. ASSUME NEW listed \in SUBSET Repos, NEW answers \in Answers, Gate(listed, answers)
      PROVE  CommandInv'
  BY <1>3, GateKeeps
<1>4. ASSUME NEW ready \in Demands, NEW load \in [Repos -> 0..1], List(ready, load)
      PROVE  CommandInv'
  BY <1>4, ListKeeps
<1>5. CASE ListFails \/ Restart
  BY <1>5, RestKeeps DEF ListFails, Restart, CommandInv, fleet
<1>6. CASE LaunchNext
  BY <1>6, LaunchKeeps
<1>7. CASE StopNext
  BY <1>7, StopKeeps
<1>8. CASE CommandFails
  BY <1>8, FailureKeeps
<1>9. ASSUME NEW i \in Ids, Exits(i) \/ Beats(i) \/ Stale(i) \/ Attaches(i)
      PROVE  CommandInv'
  BY <1>9, OutsideKeeps
<1>10. CASE UNCHANGED vars
  BY <1>10 DEF vars, governor, CommandInv, LaunchesAreDue, StopsAreDue, ContainsName
<1> QED BY <1>1, <1>2, <1>3, <1>4, <1>5, <1>6, <1>7, <1>8, <1>9, <1>10 DEF Next

(* Whatever a queued command assumes still holds when it runs.             *)
THEOREM CommandInvariant ==
  Spec => []CommandInv
BY InitCommands, NextCommands, PTL DEF Spec

(* However late the heartbeats are, whatever commands failed and whenever  *)
(* the governor restarted, no more than max_workers sessions exist.        *)
THEOREM PoolStaysWithinCeiling ==
  Spec => []CeilingHolds
<1>1. CommandInv => CeilingHolds
  BY DEF CommandInv, CeilingHolds
<1> QED BY <1>1, CommandInvariant, PTL

(* No step takes away two sessions: `needle stop` matches by substring,    *)
(* and stop_candidates refuses a name that another name contains.          *)
THEOREM StopsTheChosenOne ==
  Spec => StopsOnlyChosen
<1>1. ASSUME CommandInv, [Next]_vars
      PROVE  Cardinality(sessions \ sessions') <= 1
  <2>1. ASSUME NEW x, sessions \ sessions' \subseteq {x}
        PROVE  Cardinality(sessions \ sessions') <= 1
    <3>1. IsFiniteSet({x}) /\ Cardinality({x}) = 1
      BY FS_Singleton
    <3>2. Cardinality(sessions \ sessions') <= Cardinality({x})
      BY <2>1, <3>1, FS_Subset
    <3> QED BY <3>1, <3>2
  <2>2. CASE sessions \subseteq sessions'
    BY <2>1, <2>2
  <2>3. CASE phase = "stop" /\ Stopped
    BY <1>1, <2>1, <2>3, StoppedOne
  <2>4. ASSUME NEW i, Exits(i)
        PROVE  Cardinality(sessions \ sessions') <= 1
    BY <2>1, <2>4 DEF Exits
  <2> QED BY <1>1, <2>2, <2>3, <2>4
          DEF Next, vars, Pull, Observe, Gate, List, ListFails, Restart, LaunchNext, StopNext,
              CommandFails, Started, Beats, Stale, Attaches, fleet
<1>2. CommandInv /\ [Next]_vars => [Cardinality(sessions \ sessions') <= 1]_vars
  BY <1>1
<1> QED BY <1>2, CommandInvariant, PTL DEF Spec, StopsOnlyChosen

(* No worker is started in a workspace that the last complete pull gave to *)
(* another host, through failed pulls, prefix clashes and restarts since.  *)
THEOREM WorkersKeepOut ==
  Spec => KeepsOut
<1>1. ASSUME CommandInv, [Next]_vars, NEW i \in sessions' \ sessions
      PROVE  Head(queue).repo \notin kept
  <2>1. phase = "launch" /\ Started
    BY <1>1 DEF Next, vars, Pull, Observe, Gate, List, ListFails, Restart, LaunchNext, StopNext,
                CommandFails, Stopped, Exits, Beats, Stale, Attaches, fleet
  <2>2. LaunchesAreDue /\ kept \subseteq excluded
    BY <1>1, <2>1 DEF CommandInv
  <2>3. Head(queue) = queue[1] /\ 1 \in 1..Len(queue)
    BY <2>2, QueueFacts DEF LaunchesAreDue
  <2> QED BY <2>2, <2>3 DEF LaunchesAreDue
<1>2. CommandInv /\ [Next]_vars =>
        [\A i \in sessions' \ sessions : Head(queue).repo \notin kept]_vars
  BY <1>1
<1> QED BY <1>2, CommandInvariant, PTL DEF Spec, KeepsOut
-----------------------------------------------------------------------------
(* The saturation controller: what its experiments may do with the fleet.  *)

(* A rate, a count or an age that may be missing, and the recorded state.  *)
Measure == Nat \cup {-1}
Probes == [from : Nat, to : Nat, baseline : Measure, recovery : BOOLEAN]
SatType == [pending : Probes \cup {<<>>}, baseline : Measure, plateau : Measure,
            shrinking : BOOLEAN, observed : Measure, settled : Measure, last : Measure,
            wait : Nat]
InputType == [quota : [kind : {"hold", "changed", "paced", "reached", "stale"}, desired : Nat],
              sample : Samples \cup {<<>>}, dt : Nat, backlog : Measure]

SatInv == running \in Fleet.min_workers .. Fleet.max_workers /\ sat \in SatType

(* What every branch of apply_zai_saturation keeps to, for a state s and   *)
(* an input in: the evidence for a growth, and the way an experiment may   *)
(* be replaced.                                                            *)
Evidence(s, in, r) ==
  \/ running = 0 /\ r.state = Fresh
  \/ /\ Pending(r.state) /\ ~Pending(s) /\ ~s.shrinking /\ s.baseline # -1
     /\ in.backlog # -1 /\ r.state.pending.to <= in.backlog
     /\ r.target <= r.state.pending.to /\ r.state.pending.to <= QuotaCap(in)
  \/ Pending(s) /\ r.state.last = 0 /\ r.target <= Max2(s.pending.from, s.pending.to)

Replaces(s, r) ==
  Pending(s) /\ Pending(r.state) /\ r.state.pending # s.pending =>
    /\ ~s.pending.recovery /\ r.state.pending.recovery
    /\ r.state.pending.to = s.pending.from /\ running = s.pending.to

Justified(s, in, r) ==
  /\ r.state \in SatType /\ r.target \in Nat
  /\ r.target > running /\ running < Fleet.max_workers => Evidence(s, in, r)
  /\ Replaces(s, r)

LEMMA SatRunning ==
  ASSUME running \in Fleet.min_workers .. Fleet.max_workers
  PROVE  /\ running \in Nat /\ Fleet.min_workers \in Nat /\ Fleet.max_workers \in Nat
         /\ Fleet.min_workers <= running /\ running <= Fleet.max_workers
         /\ Fleet.max_scale_up_per_cycle \in Nat /\ Fleet.max_scale_down_per_cycle \in Nat
BY SaturationFleet, SaturationPolicy DEF Fleets

LEMMA ProbeIsPending ==
  ASSUME NEW p \in Probes
  PROVE  p # <<>>
<1>1. "from" \in DOMAIN p
  BY DEF Probes
<1>2. DOMAIN <<>> = {}
  OBVIOUS
<1> QED BY <1>1, <1>2

LEMMA FreshIsTyped == Fresh \in SatType /\ ~Pending(Fresh)
BY DEF Fresh, SatType, None, Measure, NoProbe, Pending

(* Without evidence a growth that was requested is not repeated.           *)
LEMMA DrainNeverGrows ==
  ASSUME NEW s \in SatType, running \in Nat
  PROVE  Drain(s) \in Nat /\ Drain(s) <= running
<1>1. CASE Pending(s)
  <2>1. s.pending \in Probes
    BY <1>1 DEF SatType, Pending, NoProbe
  <2>2. s.pending.to \in Nat
    BY <2>1 DEF Probes
  <2> QED BY <1>1, <2>2 DEF Drain, Min2
<1>2. CASE ~Pending(s)
  BY <1>2 DEF Drain
<1> QED BY <1>1, <1>2

LEMMA PendingIsProbe ==
  ASSUME NEW s \in SatType, Pending(s)
  PROVE  /\ s.pending \in Probes /\ s.pending.from \in Nat /\ s.pending.to \in Nat
         /\ s.pending.recovery \in BOOLEAN
<1>1. s.pending \in Probes
  BY DEF SatType, Pending, NoProbe
<1> QED BY <1>1 DEF Probes

(* A branch that grows nothing and keeps the experiment, or ends it.       *)
LEMMA QuietBranch ==
  ASSUME running \in Nat, NEW s \in SatType, NEW in, NEW r, r.state \in SatType,
         r.target \in Nat, r.target <= running,
         r.state.pending = s.pending \/ ~Pending(r.state)
  PROVE  Justified(s, in, r)
BY DEF Justified, Replaces

(* The branches of apply_zai_saturation, from the innermost outwards.      *)
LEMMA UnreachedJustified ==
  ASSUME running \in Nat, NEW s \in SatType, NEW in, Pending(s), s.last = 0
  PROVE  Justified(s, in, Unreached(s))
<1> DEFINE waits == Result([s EXCEPT !.settled = None], s.pending.to, "waiting_for_workers")
           gives == Result(Fresh, Drain(s), "worker_count_changed")
<1>1. Unreached(s) \in {waits, gives}
  BY DEF Unreached
<1>2. Justified(s, in, gives)
  BY FreshIsTyped, DrainNeverGrows, QuietBranch DEF Result
<1>3. Justified(s, in, waits)
  <2>1. waits.state \in SatType /\ waits.target = s.pending.to /\ waits.state.pending = s.pending
        /\ waits.state.last = 0
    BY DEF Result, SatType, Measure, None
  <2>2. s.pending.to <= Max2(s.pending.from, s.pending.to) /\ s.pending.to \in Nat
    BY PendingIsProbe DEF Max2
  <2> QED BY <2>1, <2>2 DEF Justified, Evidence, Replaces
<1> QED BY <1>1, <1>2, <1>3

LEMMA PlateauSet ==
  ASSUME NEW s \in SatType, ~Pending(s), NEW rate \in Nat, NEW b \in BOOLEAN
  PROVE  /\ [s EXCEPT !.plateau = rate] \in SatType
         /\ ~Pending([s EXCEPT !.plateau = rate])
         /\ [s EXCEPT !.plateau = rate, !.shrinking = b] \in SatType
         /\ ~Pending([s EXCEPT !.plateau = rate, !.shrinking = b])
BY DEF SatType, Measure, Pending

LEMMA RollBackTyped ==
  ASSUME running \in Nat, NEW s \in SatType, NEW p \in Probes
  PROVE  /\ RollBack(s, p) \in SatType /\ RollBack(s, p).last = s.last
         /\ RollBack(s, p).pending.to = p.from
         /\ RollBack(s, p).pending.recovery
<1> DEFINE q == Probe(running, p.from, s.baseline, TRUE)
<1>1. q \in Probes /\ q.to = p.from /\ q.recovery
  BY DEF Probe, Probes, SatType
<1>2. Reprobe \in Nat /\ (p.to > p.from) \in BOOLEAN
  BY SaturationFleet, SaturationPolicy
<1>3. RollBack(s, p) = [s EXCEPT !.pending = q, !.shrinking = p.to > p.from, !.wait = Reprobe]
  BY DEF RollBack
<1> HIDE DEF q
<1>4. ASSUME NEW b \in BOOLEAN
      PROVE  LET e == [s EXCEPT !.pending = q, !.shrinking = b, !.wait = Reprobe]
             IN  e \in SatType /\ e.last = s.last /\ e.pending = q
  BY <1>1, <1>2 DEF SatType
<1> QED BY <1>1, <1>2, <1>3, <1>4

LEMMA VerdictJustified ==
  ASSUME running \in Nat, NEW s \in SatType, NEW in \in InputType,
         in.sample \in Samples, Pending(s), s.last = 0, running = s.pending.to
  PROVE  Justified(s, in, Verdict(s, in))
<1> DEFINE p == s.pending
           rate == in.sample.rate
           done == [s EXCEPT !.pending = NoProbe, !.baseline = rate, !.settled = 0]
           back == RollBack(done, p)
<1>0. rate \in Nat /\ in.sample.pressured \in BOOLEAN
  BY SaturationFleet, SaturationPolicy DEF Samples
<1>1. /\ p \in Probes /\ p.from \in Nat /\ p.to \in Nat /\ p.recovery \in BOOLEAN
  BY PendingIsProbe
<1>2. done \in SatType /\ ~Pending(done) /\ done.last = 0 /\ done.baseline = rate
  BY <1>0 DEF SatType, NoProbe, Pending, Measure
<1>3. Drain(s) \in Nat /\ Drain(s) <= running
  BY DrainNeverGrows
<1>4. ASSUME NEW e \in SatType, ~Pending(e), NEW reason
      PROVE  Justified(s, in, Result(e, Drain(s), reason))
  BY <1>3, <1>4, QuietBranch DEF Result
<1>5. CASE p.recovery
  <2>1. Verdict(s, in) = Result(IF s.shrinking THEN done ELSE [done EXCEPT !.plateau = rate],
                                        Drain(s), "recovery_settled")
    BY <1>5 DEF Verdict
  <2>2. [done EXCEPT !.plateau = rate] \in SatType /\ ~Pending([done EXCEPT !.plateau = rate])
    <3> HIDE DEF done
    <3> QED BY <1>0, <1>2, PlateauSet
  <2> QED BY <1>2, <1>4, <2>1, <2>2
<1>6. CASE ~p.recovery /\ p.to < p.from /\ Retained(s, rate)
  <2>1. Verdict(s, in) = Result([done EXCEPT !.shrinking = TRUE], Drain(s),
                                        "shrink_retained_throughput")
    BY <1>1, <1>6 DEF Verdict
  <2>2. [done EXCEPT !.shrinking = TRUE] \in SatType /\ ~Pending([done EXCEPT !.shrinking = TRUE])
    BY <1>2 DEF SatType, Pending
  <2> QED BY <1>4, <2>1, <2>2
<1>7. CASE ~p.recovery /\ p.to > p.from /\ UsefulGain(s, rate)
  <2> DEFINE grown == [done EXCEPT !.plateau = rate, !.shrinking = in.sample.pressured]
  <2>1. Verdict(s, in) = Result(grown, Drain(s), "growth_improved_throughput")
    BY <1>1, <1>7 DEF Verdict
  <2>2. grown \in SatType /\ ~Pending(grown)
    <3> HIDE DEF done
    <3> QED BY <1>0, <1>2, PlateauSet
  <2> QED BY <1>4, <2>1, <2>2
<1>8. CASE /\ ~p.recovery /\ ~(p.to < p.from /\ Retained(s, rate))
           /\ ~(p.to > p.from /\ UsefulGain(s, rate))
  <2>1. Verdict(s, in) = Result(back, p.from, "restore_previous_count")
    BY <1>8 DEF Verdict
  <2>2. back \in SatType /\ back.last = 0 /\ back.pending.to = p.from /\ back.pending.recovery
    <3> HIDE DEF done
    <3> QED BY <1>1, <1>2, RollBackTyped
  <2>3. p.from <= Max2(p.from, p.to)
    BY <1>1 DEF Max2
  <2> QED BY <1>1, <1>8, <2>1, <2>2, <2>3 DEF Justified, Evidence, Replaces, Result
<1> QED BY <1>5, <1>6, <1>7, <1>8

LEMMA SettleTyped ==
  ASSUME running \in Nat, NEW s \in SatType
  PROVE  /\ Settle(s) \in SatType /\ Settle(s).pending = s.pending
         /\ Settle(s).last = s.last
BY DEF Settle, SatType, Measure

LEMMA JudgeJustified ==
  ASSUME running \in Nat, NEW s \in SatType, NEW in \in InputType,
         in.sample \in Samples, Pending(s), s.last = 0
  PROVE  Justified(s, in, Judge(s, in))
<1>1. CASE running # s.pending.to
  BY <1>1, UnreachedJustified DEF Judge
<1>2. CASE running = s.pending.to
  <2> DEFINE settles == Result(Settle(s), Drain(s), "probe_settling")
             dwells == Result(s, Drain(s), "probe_dwell")
  <2>1. Judge(s, in) \in {settles, dwells, Verdict(s, in)}
    BY <1>2 DEF Judge
  <2>2. Justified(s, in, settles)
    BY SettleTyped, DrainNeverGrows, QuietBranch DEF Result
  <2>3. Justified(s, in, dwells)
    BY DrainNeverGrows, QuietBranch DEF Result
  <2> QED BY <1>2, <2>1, <2>2, <2>3, VerdictJustified
<1> QED BY <1>1, <1>2

(* A shrink proposes more workers only to a stopped fleet, which the       *)
(* branch before has started already.                                      *)
LEMMA ExperimentJustified ==
  ASSUME running \in Fleet.min_workers .. Fleet.max_workers,
         NEW s \in SatType, NEW in \in InputType, in.sample \in Samples,
         ~Pending(s), s.baseline # -1, ~NothingRuns(in)
  PROVE  Justified(s, in, Experiment(s, in))
<1> DEFINE rate == in.sample.rate
           based == [s EXCEPT !.baseline = rate]
           shrinks == s.shrinking \/ in.sample.pressured
           to == Candidate(shrinks)
           backlogOk == in.backlog # -1 /\ in.backlog >= Max2(to, running)
           tries == to # running /\ backlogOk /\ to <= QuotaCap(in) /\ (shrinks \/ rate > 0)
           plateau == IF s.shrinking THEN s.plateau ELSE rate
           probe == Probe(running, to, rate, FALSE)
           tried == [s EXCEPT !.baseline = rate, !.pending = probe, !.settled = -1,
                              !.plateau = plateau]
<1>0. /\ running \in Nat /\ Fleet.min_workers \in Nat /\ Fleet.max_workers \in Nat
      /\ Fleet.min_workers <= running /\ running <= Fleet.max_workers /\ Unowned \in Nat
      /\ Step \in Nat /\ rate \in Nat /\ in.sample.pressured \in BOOLEAN /\ s.shrinking \in BOOLEAN
      /\ in.backlog \in Measure /\ Reprobe \in Nat
  BY SatRunning, SaturationFleet, SaturationPolicy DEF Samples, SatType, InputType
<1>1. to \in Nat
  BY <1>0 DEF Candidate, Max2, Min2, SaturatingSub
<1>2. based \in SatType /\ ~Pending(based)
  BY <1>0 DEF SatType, Measure, Pending
<1>3. CASE tries
  <2>1. Experiment(s, in).state = tried /\ Experiment(s, in).target = to
    BY <1>3 DEF Experiment, Result, None, Max2, SatType
  <2>2. probe \in Probes /\ probe.to = to
    BY <1>0, <1>1 DEF Probe, Probes, Measure
  <2>3. plateau \in Measure
    BY <1>0 DEF SatType, Measure
  <2>4. tried \in SatType /\ tried.pending = probe
    <3> HIDE DEF probe, plateau, rate
    <3> QED BY <1>0, <2>2, <2>3 DEF SatType, Measure
  <2>5. Pending(tried)
    BY <2>2, <2>4, ProbeIsPending DEF Pending, NoProbe
  <2>6. to <= in.backlog
    BY <1>0, <1>1, <1>3 DEF Max2, Measure
  <2>7. ASSUME to > running, running < Fleet.max_workers
        PROVE  ~s.shrinking
    <3>1. SUFFICES ASSUME s.shrinking PROVE FALSE
      OBVIOUS
    <3>2. running = 0 /\ Unowned = 0
      BY <1>0, <2>7, <3>1 DEF Candidate, Max2, SaturatingSub
    <3>3. QuotaCap(in) > 0 /\ in.backlog > 0 /\ Fleet.max_workers > 0
      <4>1. QuotaCap(in) \in Nat
        BY <1>0 DEF QuotaCap, InputType
      <4> QED BY <1>0, <1>1, <1>3, <2>6, <2>7, <4>1 DEF Measure
    <3> QED BY <1>3, <3>2, <3>3 DEF NothingRuns, None
  <2>8. tried.pending.to = to
    BY <2>2, <2>4
  <2>9. to <= QuotaCap(in) /\ in.backlog # -1 /\ to <= to
    BY <1>1, <1>3
  <2>10. ASSUME to > running, running < Fleet.max_workers
         PROVE  Evidence(s, in, Experiment(s, in))
    <3>1. ~s.shrinking
      BY <2>7, <2>10
    <3> HIDE DEF tried, to, tries
    <3> QED BY <2>1, <2>5, <2>6, <2>8, <2>9, <3>1 DEF Evidence
  <2> HIDE DEF tried, to, tries
  <2> QED BY <1>1, <2>1, <2>4, <2>10 DEF Justified, Replaces
<1>4. CASE ~tries
  <2> DEFINE ends == [based EXCEPT !.shrinking = FALSE, !.wait = Reprobe]
  <2>1. Experiment(s, in).state \in {based, ends} /\ Experiment(s, in).target = Drain(s)
    BY <1>4 DEF Experiment, Result, None, Max2, SatType
  <2>2. ends \in SatType /\ ~Pending(ends)
    <3> HIDE DEF based
    <3> QED BY <1>0, <1>2 DEF SatType, Pending
  <2> HIDE DEF ends, based
  <2> QED BY <1>0, <1>2, <2>1, <2>2, DrainNeverGrows, QuietBranch
<1> QED BY <1>3, <1>4

LEMMA ObserveJustified ==
  ASSUME running \in Fleet.min_workers .. Fleet.max_workers,
         NEW s \in SatType, NEW in \in InputType, in.sample \in Samples, s.last = 0,
         ~NothingRuns(in)
  PROVE  Justified(s, in, ObserveSample(s, in))
<1>0. running \in Nat
  BY SatRunning
<1>1. CASE Pending(s)
  BY <1>0, <1>1, JudgeJustified DEF ObserveSample
<1>2. CASE ~Pending(s) /\ (s.observed # running \/ s.baseline = -1)
  <2> DEFINE e == [Settle(s) EXCEPT !.baseline = in.sample.rate, !.plateau = in.sample.rate]
  <2>1. ObserveSample(s, in) = Result(e, Drain(s), "baseline")
    BY <1>2 DEF ObserveSample, None
  <2>2. in.sample.rate \in Nat
    BY SaturationFleet, SaturationPolicy DEF Samples
  <2>3. e \in SatType /\ e.pending = s.pending
    BY <1>0, <2>2, SettleTyped DEF SatType, Measure
  <2> QED BY <1>0, <2>1, <2>3, DrainNeverGrows, QuietBranch DEF Result
<1>3. CASE ~Pending(s) /\ ~(s.observed # running \/ s.baseline = -1)
  <2> DEFINE dwells == Result(s, Drain(s), "baseline_dwell")
  <2>1. ObserveSample(s, in) \in {dwells, Experiment(s, in)}
    BY <1>3 DEF ObserveSample, None
  <2>2. Justified(s, in, dwells)
    BY <1>0, DrainNeverGrows, QuietBranch DEF Result
  <2> QED BY <1>3, <2>1, <2>2, ExperimentJustified
<1> QED BY <1>1, <1>2, <1>3

LEMMA WeighJustified ==
  ASSUME running \in Fleet.min_workers .. Fleet.max_workers,
         NEW s \in SatType, NEW in \in InputType
  PROVE  Justified(s, in, Weigh(s, in))
<1>0. running \in Nat
  BY SatRunning
<1>1. ASSUME NEW reason
      PROVE  Justified(s, in, Result(Fresh, Drain(s), reason))
  BY <1>0, FreshIsTyped, DrainNeverGrows, QuietBranch DEF Result
<1>2. ASSUME NEW reason
      PROVE  Justified(s, in, Result(s, Drain(s), reason))
  BY <1>0, DrainNeverGrows, QuietBranch DEF Result
<1>3. CASE Bound(in)
  BY <1>1, <1>3 DEF Weigh
<1>4. CASE ~Bound(in) /\ NothingRuns(in)
  <2>1. Weigh(s, in) = Result(Fresh, Max2(Bootstrap, 1), "bootstrap_for_evidence")
    BY <1>4 DEF Weigh
  <2>2. Max2(Bootstrap, 1) \in Nat /\ running = 0
    BY <1>4, SaturationFleet, SaturationPolicy DEF Max2, NothingRuns
  <2> QED BY <2>1, <2>2, FreshIsTyped DEF Justified, Evidence, Replaces, Result
<1>5. CASE ~Bound(in) /\ ~NothingRuns(in)
  <2> DEFINE e == [s EXCEPT !.last = 0]
  <2>1. \/ Weigh(s, in) = Result(Fresh, Drain(s), "signal_gap")
        \/ Weigh(s, in) = Result(s, Drain(s), "repeated_sample")
        \/ Weigh(s, in) = Result(s, Drain(s), "insufficient_signal")
        \/ Valid(s, in) /\ Weigh(s, in) = ObserveSample(e, in)
    BY <1>5 DEF Weigh
  <2>2. e \in SatType /\ e.last = 0 /\ e.pending = s.pending /\ e.shrinking = s.shrinking
        /\ e.baseline = s.baseline
    BY DEF SatType, Measure
  <2>3. Valid(s, in) => in.sample \in Samples
    BY DEF Valid, InputType, NoSample
  <2> HIDE DEF e
  <2>4. Valid(s, in) => Justified(e, in, ObserveSample(e, in))
    BY <1>5, <2>2, <2>3, ObserveJustified
  <2>5. ASSUME NEW r, Justified(e, in, r)
        PROVE  Justified(s, in, r)
    BY <2>2, <2>5 DEF Justified, Evidence, Replaces, Pending
  <2> QED BY <1>1, <1>2, <2>1, <2>4, <2>5
<1> QED BY <1>3, <1>4, <1>5

(* The common end makes an upward target only smaller, and it does not cut *)
(* an experiment that fits the backlog and the quota.                      *)
LEMMA LimitJustified ==
  ASSUME running \in Fleet.min_workers .. Fleet.max_workers,
         NEW s \in SatType, NEW in \in InputType, NEW r, Justified(s, in, r)
  PROVE  LET limited == Limit(r, in)
         IN  /\ limited.state \in SatType /\ limited.target \in Nat
             /\ limited.target > running => Evidence(s, in, limited)
             /\ Replaces(s, limited)
<1> DEFINE limited == Limit(r, in)
           backlogCap == IF in.backlog = -1 THEN running ELSE in.backlog
           capped == Min2(Min2(r.target, Min2(backlogCap, Fleet.max_workers)),
                          running + Fleet.max_scale_up_per_cycle)
           stepped == Max2(capped, SaturatingSub(running, Fleet.max_scale_down_per_cycle))
           granted == Min2(stepped, QuotaCap(in))
           cut == \/ granted # stepped
                  \/ /\ Pending(r.state)
                     /\ r.state.pending.to > Min2(QuotaCap(in), backlogCap)
           forgets == [r.state EXCEPT !.pending = NoProbe, !.baseline = -1, !.settled = -1]
<1>0. /\ running \in Nat /\ Fleet.max_workers \in Nat /\ Fleet.max_scale_up_per_cycle \in Nat
      /\ Fleet.max_scale_down_per_cycle \in Nat /\ running <= Fleet.max_workers
      /\ r.state \in SatType /\ r.target \in Nat /\ in.backlog \in Measure
  BY SatRunning DEF Justified, InputType
<1>1. backlogCap \in Nat /\ QuotaCap(in) \in Nat
  BY <1>0 DEF Measure, QuotaCap, InputType
<1>2. limited.target = granted /\ limited.state = IF cut THEN forgets ELSE r.state
  BY DEF Limit, Result, None, Min2, Max2, SaturatingSub,
         Min2, Max2, SaturatingSub
<1>3. granted \in Nat /\ (granted > running =>
        granted <= r.target /\ running < Fleet.max_workers /\ stepped <= r.target)
  <2> HIDE DEF backlogCap
  <2> QED BY <1>0, <1>1 DEF Min2, Max2, SaturatingSub
<1>4. forgets \in SatType /\ ~Pending(forgets) /\ forgets.last = r.state.last
  BY <1>0 DEF SatType, Measure, Pending, NoProbe
<1>5. r.state = Fresh => forgets = Fresh
  <2>1. SUFFICES ASSUME r.state = Fresh PROVE forgets = Fresh
    OBVIOUS
  <2>2. [Fresh EXCEPT !.pending = NoProbe, !.baseline = -1, !.settled = -1] = Fresh
    <3>1. /\ Fresh \in SatType /\ Fresh.pending = NoProbe /\ Fresh.baseline = -1
          /\ Fresh.settled = -1
      BY FreshIsTyped DEF Fresh, None
    <3> QED BY <3>1 DEF SatType
  <2> QED BY <2>1, <2>2
<1>6. limited.state \in SatType /\ Replaces(s, limited)
  <2> HIDE DEF forgets, limited, cut
  <2> QED BY <1>0, <1>2, <1>4 DEF Justified, Replaces
<1>7. ASSUME granted > running
      PROVE  Evidence(s, in, limited)
  <2>1. granted <= r.target /\ running < Fleet.max_workers /\ stepped <= r.target
    BY <1>3, <1>7
  <2>2. r.target > running
    BY <1>0, <1>3, <1>7, <2>1
  <2>3. Evidence(s, in, r)
    BY <2>1, <2>2 DEF Justified
  <2>4. CASE running = 0 /\ r.state = Fresh
    <3> HIDE DEF forgets, limited, cut
    <3> QED BY <1>2, <1>5, <2>4 DEF Evidence
  <2>5. CASE /\ Pending(r.state) /\ ~Pending(s) /\ ~s.shrinking /\ s.baseline # -1
             /\ in.backlog # -1 /\ r.state.pending.to <= in.backlog
             /\ r.target <= r.state.pending.to /\ r.state.pending.to <= QuotaCap(in)
    <3>0. r.state.pending.to \in Nat
      BY <1>0, <2>5, PendingIsProbe
    <3>1. stepped \in Nat /\ backlogCap = in.backlog
      <4> HIDE DEF backlogCap
      <4>1. stepped \in Nat
        BY <1>0, <1>1 DEF Min2, Max2, SaturatingSub
      <4> QED BY <2>5, <4>1 DEF backlogCap
    <3>2. granted = stepped
      <4> HIDE DEF stepped
      <4> QED BY <1>0, <1>1, <2>1, <2>5, <3>0, <3>1 DEF Min2
    <3>3. ~cut
      <4> HIDE DEF stepped, backlogCap
      <4> QED BY <1>0, <1>1, <2>5, <3>0, <3>1, <3>2 DEF Min2
    <3>4. limited.state = r.state
      BY <1>2, <3>3
    <3>5. granted <= r.state.pending.to
      <4> HIDE DEF granted
      <4> QED BY <1>0, <1>3, <2>1, <2>5, <3>0
    <3> HIDE DEF limited
    <3> QED BY <1>2, <2>5, <3>4, <3>5 DEF Evidence
  <2>6. CASE Pending(s) /\ r.state.last = 0 /\ r.target <= Max2(s.pending.from, s.pending.to)
    <3>1. Max2(s.pending.from, s.pending.to) \in Nat
      BY <2>6, PendingIsProbe DEF Max2
    <3>2. granted <= Max2(s.pending.from, s.pending.to)
      <4> HIDE DEF granted
      <4> QED BY <1>0, <1>3, <2>1, <2>6, <3>1
    <3>3. limited.state.last = 0
      <4> HIDE DEF forgets, cut, limited
      <4> QED BY <1>2, <1>4, <2>6
    <3> HIDE DEF limited
    <3> QED BY <1>2, <2>6, <3>2, <3>3 DEF Evidence
  <2> QED BY <2>3, <2>4, <2>5, <2>6 DEF Evidence
<1> QED BY <1>2, <1>3, <1>6, <1>7

LEMMA AgedKeeps ==
  ASSUME NEW s \in SatType, NEW dt \in Nat, AgeCap \in Nat
  PROVE  /\ Aged(s, dt) \in SatType /\ Aged(s, dt).pending = s.pending
         /\ Aged(s, dt).shrinking = s.shrinking /\ Aged(s, dt).baseline = s.baseline
<1>1. ASSUME NEW age \in Measure PROVE Older(age, dt) \in Measure
  BY <1>1 DEF Measure, Older, None, Min2
<1>2. /\ Older(s.settled, dt) \in Measure /\ Older(s.last, dt) \in Measure
      /\ SaturatingSub(s.wait, dt) \in Nat
  BY <1>1 DEF SatType, SaturatingSub
<1> QED BY <1>2 DEF Aged, SatType

LEMMA ApplyJustified ==
  ASSUME SatInv, NEW in \in InputType, AgeCap \in Nat
  PROVE  LET result == ApplyZaiSaturation(sat, in)
         IN  /\ result.state \in SatType /\ result.target \in Nat
             /\ result.target > running => Evidence(sat, in, result)
             /\ Replaces(sat, result)
<1> DEFINE aged == Aged(sat, in.dt)
           result == ApplyZaiSaturation(sat, in)
<1>1. /\ aged \in SatType /\ aged.pending = sat.pending
      /\ aged.shrinking = sat.shrinking /\ aged.baseline = sat.baseline
  BY AgedKeeps DEF SatInv, InputType
<1>2. result = Limit(Weigh(aged, in), in)
  BY DEF ApplyZaiSaturation
<1> HIDE DEF aged
<1>3. Justified(aged, in, Weigh(aged, in))
  BY <1>1, WeighJustified DEF SatInv
<1>4. /\ result.state \in SatType /\ result.target \in Nat
      /\ result.target > running => Evidence(aged, in, result)
      /\ Replaces(aged, result)
  BY <1>1, <1>2, <1>3, LimitJustified DEF SatInv
<1> QED BY <1>1, <1>4 DEF Evidence, Replaces, Pending

(* The inductive invariant SatInv.                                         *)
LEMMA AgeCapNat ==
  AgeCap \in Nat
<1> DEFINE S == {Cap} \cup Windows
<1>1. Cap \in Nat
  BY SaturationFleet, SaturationPolicy DEF Cap, Max2
<1>2. IsFiniteSet(S)
  BY FS_AddElement, SaturationFleet, SaturationPolicy
<1>3. S \in SUBSET Nat /\ S # {}
  BY <1>1, SaturationFleet, SaturationPolicy
<1> HIDE DEF S
<1>4. \E n \in S : \A m \in S : n >= m
  BY <1>2, <1>3, GreatestNatural
<1>5. (CHOOSE n \in S : \A m \in S : n >= m) \in Nat
  BY <1>3, <1>4
<1> QED BY <1>5 DEF S, AgeCap

LEMMA InputsTyped ==
  ASSUME SatInv, NEW in \in Inputs \cup UsableInputs
  PROVE  in \in InputType
<1>1. /\ running \in Nat /\ Up \in Nat /\ Down \in Nat
  BY SatRunning DEF SatInv, Up, Down, Min2, Max2, SaturatingSub
<1>2. Quotas \subseteq
        [kind : {"hold", "changed", "paced", "reached", "stale"}, desired : Nat]
  BY <1>1 DEF Quotas
<1>3. Deltas \subseteq Nat /\ Backlogs \subseteq Measure
  BY SaturationFleet, SaturationPolicy DEF Measure, None
<1>4. CASE in \in Inputs
  BY <1>2, <1>3, <1>4 DEF Inputs, InputType, NoSample
<1>5. CASE in \in UsableInputs
  BY <1>1, <1>3, <1>5 DEF UsableInputs, InputType
<1> QED BY <1>4, <1>5

LEMMA ReportedInRange ==
  ASSUME NEW n \in Nat
  PROVE  Reported(n) \in Fleet.min_workers .. Fleet.max_workers
BY SaturationFleet, SaturationPolicy DEF Reported, Clamp, Min2, Max2, Fleets

(* A step that changes the recorded state is an evaluation.                *)
LEMMA EvaluationSteps ==
  ASSUME SatInv, Cycle \/ SteadyCycle
  PROVE  \E in \in InputType :
           /\ sat' = ApplyZaiSaturation(sat, in).state
           /\ target' = ApplyZaiSaturation(sat, in).target
           /\ running' \in Fleet.min_workers .. Fleet.max_workers
<1>1. PICK in \in Inputs \cup UsableInputs, complete \in BOOLEAN : CycleWith(in, complete)
  BY DEF Cycle, SteadyCycle
<1>2. in \in InputType
  BY InputsTyped
<1> DEFINE result == ApplyZaiSaturation(sat, in)
<1>3. result.target \in Nat
  BY <1>2, AgeCapNat, ApplyJustified
<1>4. /\ sat' = result.state /\ target' = result.target
      /\ \E n \in IF complete THEN {result.target} ELSE Between(running, result.target) :
           running' = Reported(n)
  BY <1>1 DEF CycleWith
<1> HIDE DEF result
<1>5. running \in Nat
  BY SatRunning DEF SatInv
<1>6. \A n \in IF complete THEN {result.target} ELSE Between(running, result.target) : n \in Nat
  BY <1>3, <1>5 DEF Between, Min2, Max2
<1>7. running' \in Fleet.min_workers .. Fleet.max_workers
  BY <1>4, <1>6, ReportedInRange
<1> QED BY <1>2, <1>4, <1>7 DEF result

LEMMA SatInitInv ==
  ASSUME SaturationInit
  PROVE  SatInv
BY FreshIsTyped DEF SaturationInit, SatInv

LEMMA SatNextInv ==
  ASSUME SatInv, [SaturationNext]_saturationVars
  PROVE  SatInv'
<1>1. CASE Cycle \/ SteadyCycle
  <2>1. PICK in \in InputType :
           /\ sat' = ApplyZaiSaturation(sat, in).state
           /\ running' \in Fleet.min_workers .. Fleet.max_workers
    BY <1>1, EvaluationSteps
  <2>2. ApplyZaiSaturation(sat, in).state \in SatType
    BY AgeCapNat, ApplyJustified
  <2> QED BY <2>1, <2>2 DEF SatInv
<1>2. CASE CountChanges
  <2>1. running \in Nat
    BY SatRunning DEF SatInv
  <2>2. SaturatingSub(running, 1) \in Nat /\ running + 1 \in Nat
    BY <2>1 DEF SaturatingSub
  <2>3. running' \in Fleet.min_workers .. Fleet.max_workers
    BY <1>2, <2>2, ReportedInRange DEF CountChanges
  <2> QED BY <1>2, <2>3 DEF CountChanges, SatInv
<1>3. CASE BecomeSteady \/ UNCHANGED saturationVars
  BY <1>3 DEF BecomeSteady, saturationVars, SatInv
<1> QED BY <1>1, <1>2, <1>3 DEF SaturationNext

(* saturation.rs: whatever snapshots come, repeated, late or missing, and  *)
(* however the count changes by itself, an evaluation never enlarges the   *)
(* fleet without evidence, now or when the experiment began, unless the    *)
(* fleet was stopped and has work.                                         *)
THEOREM GrowthHasEvidence == SaturationSpec => GrowthNeedsEvidence
<1>1. ASSUME SatInv, [SaturationNext]_saturationVars, target' > running, sat' # sat
      PROVE  \/ running = 0 /\ sat' = Fresh
             \/ /\ Pending(sat') /\ ~Pending(sat) /\ ~sat.shrinking
                /\ sat.baseline # None
             \/ Pending(sat) /\ sat'.last = 0
                  /\ target' <= Max2(sat.pending.from, sat.pending.to)
  <2>1. Cycle \/ SteadyCycle
    BY <1>1 DEF SaturationNext, CountChanges, BecomeSteady, saturationVars
  <2>2. PICK in \in InputType :
           /\ sat' = ApplyZaiSaturation(sat, in).state
           /\ target' = ApplyZaiSaturation(sat, in).target
    BY <1>1, <2>1, EvaluationSteps
  <2>3. ApplyZaiSaturation(sat, in).target > running =>
          Evidence(sat, in, ApplyZaiSaturation(sat, in))
    BY <1>1, AgeCapNat, ApplyJustified
  <2>4. Evidence(sat, in, ApplyZaiSaturation(sat, in))
    BY <1>1, <2>2, <2>3
  <2> QED BY <2>2, <2>4 DEF Evidence, None, Max2
<1>2. SaturationSpec => []SatInv
  BY SatInitInv, SatNextInv, PTL DEF SaturationSpec
<1>3. SatInv /\ [SaturationNext]_saturationVars =>
        [ target' > running /\ sat' # sat =>
            \/ running = 0 /\ sat' = Fresh
            \/ /\ Pending(sat') /\ ~Pending(sat) /\ ~sat.shrinking
               /\ sat.baseline # None
            \/ Pending(sat) /\ sat'.last = 0
                 /\ target' <= Max2(sat.pending.from, sat.pending.to) ]_saturationVars
  BY <1>1
<1> QED BY <1>2, <1>3, PTL DEF SaturationSpec, GrowthNeedsEvidence

(* saturation.rs 165: an experiment is only ever replaced by the way back  *)
(* from it, after the fleet reached the count it tried; a way back is      *)
(* never replaced before it has settled.                                   *)
THEOREM FailedChangeIsTakenBack == SaturationSpec => RollbackFirst
<1>1. ASSUME SatInv, [SaturationNext]_saturationVars,
             Pending(sat), Pending(sat'), sat'.pending # sat.pending
      PROVE  /\ ~sat.pending.recovery /\ sat'.pending.recovery
             /\ sat'.pending.to = sat.pending.from /\ running = sat.pending.to
  <2>1. Cycle \/ SteadyCycle
    BY <1>1 DEF SaturationNext, CountChanges, BecomeSteady, saturationVars
  <2>2. PICK in \in InputType : sat' = ApplyZaiSaturation(sat, in).state
    BY <1>1, <2>1, EvaluationSteps
  <2>3. Replaces(sat, ApplyZaiSaturation(sat, in))
    BY <1>1, AgeCapNat, ApplyJustified
  <2> QED BY <1>1, <2>2, <2>3 DEF Replaces
<1>2. SaturationSpec => []SatInv
  BY SatInitInv, SatNextInv, PTL DEF SaturationSpec
<1>3. SatInv /\ [SaturationNext]_saturationVars =>
        [ Pending(sat) /\ Pending(sat') /\ sat'.pending # sat.pending =>
            /\ ~sat.pending.recovery /\ sat'.pending.recovery
            /\ sat'.pending.to = sat.pending.from /\ running = sat.pending.to ]_saturationVars
  BY <1>1
<1> QED BY <1>2, <1>3, PTL DEF SaturationSpec, RollbackFirst

-----------------------------------------------------------------------------
(* Worker names: prefixes decide which pool of which host a worker is of.  *)

EndsInSeparator(prefix) == prefix # <<>> /\ prefix[Len(prefix)] = "-"

(* What matches_worker_prefix accepts, character by character.            *)
LEMMA MatchingPrefix ==
  ASSUME NEW Text, NEW p \in Seq(Text), NEW w \in Seq(Text), Cfg!matches_worker_prefix(p, w)
  PROVE  /\ Len(p) < Len(w)
         /\ \A i \in 1 .. Len(p) : w[i] = p[i]
         /\ \A i \in Len(p) + 1 .. Len(w) : w[i] \in Digit
<1>1. /\ Cfg!IsStrictPrefix(p, w)
      /\ Cfg!Range(SubSeq(w, Len(p) + 1, Len(w))) \subseteq Digit
  BY DEF Cfg!matches_worker_prefix
<1>2. Len(p) <= Len(w) /\ SubSeq(p, 1, Len(p)) = SubSeq(w, 1, Len(p)) /\ p # w
  BY <1>1 DEF Cfg!IsStrictPrefix, Cfg!IsPrefix
<1>3. \A i \in 1 .. Len(p) : w[i] = p[i]
  BY <1>2
<1>4. Len(p) # Len(w)
  BY <1>2, <1>3
<1>5. \A i \in Len(p) + 1 .. Len(w) : w[i] \in Digit
  <2> DEFINE rest == SubSeq(w, Len(p) + 1, Len(w))
  <2> TAKE i \in Len(p) + 1 .. Len(w)
  <2>1. i - Len(p) \in 1 .. Len(w) - Len(p) /\ Len(p) \in Nat /\ Len(w) \in Nat
    BY <1>2
  <2>2. Len(rest) = Len(w) - Len(p) /\ rest[i - Len(p)] = w[Len(p) + 1 + (i - Len(p)) - 1]
    BY <1>2, <2>1, SubSeqProperties
  <2>3. i - Len(p) \in DOMAIN rest /\ rest[i - Len(p)] = w[i]
    BY <2>1, <2>2
  <2>4. rest[i - Len(p)] \in Cfg!Range(rest)
    BY <2>3, Zenon DEF Cfg!Range
  <2> QED BY <2>3, <2>4, <1>1
<1> QED BY <1>2, <1>3, <1>4, <1>5

(* ownership.rs 62: no worker name matches two prefixes that end in a      *)
(* separator: the longer one would have it among the digits.              *)
THEOREM PrefixesAreTellable ==
  ASSUME "-" \notin Digit, NEW Text,
         NEW p \in Seq(Text), EndsInSeparator(p), NEW q \in Seq(Text), EndsInSeparator(q),
         NEW w \in Seq(Text), Cfg!matches_worker_prefix(p, w), Cfg!matches_worker_prefix(q, w)
  PROVE  p = q
<1>1. /\ Len(p) < Len(w)
      /\ \A i \in 1 .. Len(p) : w[i] = p[i]
      /\ \A i \in Len(p) + 1 .. Len(w) : w[i] \in Digit
  BY MatchingPrefix
<1>2. /\ Len(q) < Len(w)
      /\ \A i \in 1 .. Len(q) : w[i] = q[i]
      /\ \A i \in Len(q) + 1 .. Len(w) : w[i] \in Digit
  BY MatchingPrefix
<1>3. Len(p) \in Nat \ {0} /\ Len(q) \in Nat \ {0} /\ p[Len(p)] = "-" /\ q[Len(q)] = "-"
  BY DEF EndsInSeparator
<1>4. ~(Len(p) < Len(q))
  <2> SUFFICES ASSUME Len(p) < Len(q) PROVE FALSE
    OBVIOUS
  <2>1. Len(q) \in 1 .. Len(q) /\ Len(q) \in Len(p) + 1 .. Len(w)
    BY <1>1, <1>2, <1>3
  <2>2. w[Len(q)] = "-" /\ w[Len(q)] \in Digit
    BY <1>1, <1>2, <1>3, <2>1
  <2> QED BY <2>2
<1>5. ~(Len(q) < Len(p))
  <2> SUFFICES ASSUME Len(q) < Len(p) PROVE FALSE
    OBVIOUS
  <2>1. Len(p) \in 1 .. Len(p) /\ Len(p) \in Len(q) + 1 .. Len(w)
    BY <1>1, <1>2, <1>3
  <2>2. w[Len(p)] = "-" /\ w[Len(p)] \in Digit
    BY <1>1, <1>2, <1>3, <2>1
  <2> QED BY <2>2
<1>6. Len(p) = Len(q)
  BY <1>3, <1>4, <1>5
<1> QED BY <1>1, <1>2, <1>6

(* ownership.rs 5, config.rs 522: on one host of a validated federation no *)
(* worker belongs to two accounts.                                         *)
THEOREM WorkersHaveOnePool ==
  ASSUME "-" \notin Digit, NEW Text, NEW federation, NEW accounts,
         Cfg!ValidPrefixes(federation, accounts),
         NEW m \in DOMAIN accounts, NEW n \in DOMAIN accounts, m # n,
         NEW p \in Seq(Text), EndsInSeparator(p),
         p \in Cfg!EffectivePrefixes(federation, accounts[m].fleet),
         NEW q \in Seq(Text), EndsInSeparator(q),
         q \in Cfg!EffectivePrefixes(federation, accounts[n].fleet),
         NEW w \in Seq(Text)
  PROVE  ~(Cfg!matches_worker_prefix(p, w) /\ Cfg!matches_worker_prefix(q, w))
<1>1. Cfg!EffectivePrefixes(federation, accounts[m].fleet)
        \cap Cfg!EffectivePrefixes(federation, accounts[n].fleet) = {}
  BY DEF Cfg!ValidPrefixes
<1> QED BY <1>1, PrefixesAreTellable

(* The pool of a prefix is at most the stem and a separator shorter.       *)
LEMMA PoolOfPrefix ==
  ASSUME NEW Text, NEW p \in Seq(Text)
  PROVE  /\ Cfg!pool_of_prefix(p) \in Seq(Text)
         /\ Len(Cfg!pool_of_prefix(p)) + 4 >= Len(p)
<1> DEFINE stemmed == IF Cfg!IsPrefix(Cfg!Stem, p) THEN SubSeq(p, 4, Len(p)) ELSE p
<1>1. stemmed \in Seq(Text) /\ Len(stemmed) + 3 >= Len(p)
  <2>1. CASE Cfg!IsPrefix(Cfg!Stem, p)
    <3>1. Len(p) >= 3
      BY <2>1 DEF Cfg!IsPrefix, Cfg!Stem
    <3> QED BY <2>1, <3>1
  <2> QED BY <2>1
<1>2. Cfg!IsSuffix(Cfg!Separator, stemmed) => Len(stemmed) >= 1
  <2> SUFFICES ASSUME Cfg!IsSuffix(Cfg!Separator, stemmed) PROVE Len(stemmed) >= 1
    OBVIOUS
  <2> HIDE DEF stemmed
  <2>1. Len(Cfg!Reverse(Cfg!Separator)) <= Len(Cfg!Reverse(stemmed))
    BY DEF Cfg!IsSuffix, Cfg!IsPrefix
  <2>2. Len(Cfg!Reverse(Cfg!Separator)) = 1
    BY DEF Cfg!Reverse, Cfg!Separator
  <2>3. Len(Cfg!Reverse(stemmed)) = Len(stemmed)
    BY <1>1 DEF Cfg!Reverse
  <2> QED BY <2>1, <2>2, <2>3, <1>1
<1>3. Cfg!pool_of_prefix(p) =
        IF Cfg!IsSuffix(Cfg!Separator, stemmed) THEN SubSeq(stemmed, 1, Len(stemmed) - 1) ELSE stemmed
  BY DEF Cfg!pool_of_prefix, Cfg!Front
<1> HIDE DEF stemmed
<1>4. CASE Cfg!IsSuffix(Cfg!Separator, stemmed)
  BY <1>1, <1>2, <1>3, <1>4
<1>5. CASE ~Cfg!IsSuffix(Cfg!Separator, stemmed)
  BY <1>1, <1>3, <1>5
<1> QED BY <1>4, <1>5

(* Texts put together.                                                     *)
LEMMA Join ==
  ASSUME NEW Text, NEW a \in Seq(Text), NEW b \in Seq(Text)
  PROVE  /\ a \o b \in Seq(Text)
         /\ Len(a \o b) = Len(a) + Len(b)
         /\ \A i \in 1 .. Len(b) : (a \o b)[Len(a) + i] = b[i]
OBVIOUS

(* The four parts of a derived prefix before its last separator.           *)
LEMMA Chain ==
  ASSUME NEW Text, NEW a \in Seq(Text), NEW p \in Seq(Text), NEW b \in Seq(Text), NEW h \in Seq(Text)
  PROVE  /\ a \o p \o b \o h \in Seq(Text)
         /\ Len(a \o p \o b \o h) = Len(a) + Len(p) + Len(b) + Len(h)
<1>1. PICK x \in Seq(Text) : x = a \o p /\ Len(x) = Len(a) + Len(p)
  <2>1. a \o p \in Seq(Text) /\ Len(a \o p) = Len(a) + Len(p)
    OBVIOUS
  <2> QED BY <2>1
<1>2. PICK y \in Seq(Text) : y = x \o b /\ Len(y) = Len(x) + Len(b)
  <2>1. x \o b \in Seq(Text) /\ Len(x \o b) = Len(x) + Len(b)
    OBVIOUS
  <2> QED BY <2>1
<1>3. y \o h \in Seq(Text) /\ Len(y \o h) = Len(y) + Len(h)
  OBVIOUS
<1> QED BY <1>1, <1>2, <1>3

(* A derived prefix is longer than the configured one and ends in a        *)
(* separator.                                                              *)
LEMMA DerivedPrefix ==
  ASSUME NEW Text, {"s", "g", "-"} \subseteq Text, NEW c \in Seq(Text), NEW h \in Seq(Text),
         Cfg!effective_prefix(c, h, FALSE) # c
  PROVE  /\ Cfg!effective_prefix(c, h, FALSE) \in Seq(Text)
         /\ Len(Cfg!effective_prefix(c, h, FALSE)) > Len(c)
         /\ EndsInSeparator(Cfg!effective_prefix(c, h, FALSE))
<1>1. PICK stem \in Seq(Text) : stem = Cfg!Stem /\ Len(stem) = 3
  <2>1. Cfg!Stem \in Seq(Text) /\ Len(Cfg!Stem) = 3
    BY DEF Cfg!Stem
  <2> QED BY <2>1
<1>2. PICK sep \in Seq(Text) : sep = Cfg!Separator /\ Len(sep) = 1 /\ sep[1] = "-"
  <2>1. Cfg!Separator \in Seq(Text) /\ Len(Cfg!Separator) = 1 /\ Cfg!Separator[1] = "-"
    BY DEF Cfg!Separator
  <2> QED BY <2>1
<1>3. PICK pool \in Seq(Text) : pool = Cfg!pool_of_prefix(c) /\ Len(pool) + 4 >= Len(c)
  BY PoolOfPrefix
<1>4. PICK front \in Seq(Text) : /\ front = stem \o pool \o sep \o h
                                 /\ Len(front) = 4 + Len(pool) + Len(h)
  <2>1. stem \o pool \o sep \o h \in Seq(Text)
    BY Zenon, Chain
  <2>2. Len(stem \o pool \o sep \o h) = Len(stem) + Len(pool) + Len(sep) + Len(h)
    BY SMTT(30), Chain
  <2>3. PICK front \in Seq(Text) : /\ front = stem \o pool \o sep \o h
                                   /\ Len(front) = Len(stem) + Len(pool) + Len(sep) + Len(h)
    BY <2>1, <2>2
  <2>4. Len(front) = 4 + Len(pool) + Len(h)
    BY <1>1, <1>2, <2>3
  <2> QED BY <2>3, <2>4
<1>5. PICK d \in Seq(Text) : d = front \o sep /\ Len(d) = Len(front) + 1 /\ d[Len(front) + 1] = "-"
  <2>1. /\ front \o sep \in Seq(Text)
        /\ Len(front \o sep) = Len(front) + Len(sep)
        /\ \A i \in 1 .. Len(sep) : (front \o sep)[Len(front) + i] = sep[i]
    BY Zenon, Join
  <2>2. PICK d \in Seq(Text) : /\ d = front \o sep
                               /\ Len(d) = Len(front) + Len(sep)
                               /\ \A i \in 1 .. Len(sep) : d[Len(front) + i] = sep[i]
    BY <2>1
  <2>3. Len(d) = Len(front) + 1 /\ d[Len(front) + 1] = "-"
    BY <1>2, <2>2
  <2> QED BY <2>2, <2>3
<1>6. Cfg!effective_prefix(c, h, FALSE) = d
  BY <1>1, <1>2, <1>3, <1>4, <1>5 DEF Cfg!effective_prefix
<1>7. Len(d) > Len(c) /\ EndsInSeparator(d)
  BY <1>3, <1>4, <1>5 DEF EndsInSeparator
<1> QED BY <1>6, <1>7

(* ownership.rs 51: the primary with the configured prefix and another     *)
(* host with the one it derived from it claim none of each other's workers.*)
THEOREM HostsHaveTheirOwn ==
  ASSUME "-" \notin Digit, NEW Text, {"s", "g", "-"} \subseteq Text,
         NEW c \in Seq(Text), NEW h \in Seq(Text),
         Cfg!effective_prefix(c, h, FALSE) # c,
         NEW n \in Seq(Digit \cap Text)
  PROVE  /\ ~Cfg!matches_worker_prefix(c, Cfg!effective_prefix(c, h, FALSE) \o n)
         /\ ~Cfg!matches_worker_prefix(Cfg!effective_prefix(c, h, FALSE), c \o n)
<1> DEFINE d == Cfg!effective_prefix(c, h, FALSE)
<1>1. d \in Seq(Text) /\ Len(d) > Len(c) /\ EndsInSeparator(d)
  BY DerivedPrefix
<1> HIDE DEF d
<1>2. Len(d) \in Nat /\ Len(c) \in Nat /\ d[Len(d)] = "-"
  BY <1>1 DEF EndsInSeparator
<1>3. n \in Seq(Text)
  OBVIOUS
<1>4. ASSUME Cfg!matches_worker_prefix(c, d \o n)
      PROVE  FALSE
  <2>1. d \o n \in Seq(Text) /\ Len(d \o n) = Len(d) + Len(n) /\ (d \o n)[Len(d)] = d[Len(d)]
    BY <1>1, <1>2, <1>3
  <2>2. \A i \in Len(c) + 1 .. Len(d \o n) : (d \o n)[i] \in Digit
    BY <2>1, <1>4, MatchingPrefix
  <2> QED BY <1>1, <1>2, <2>1, <2>2
<1>5. ASSUME Cfg!matches_worker_prefix(d, c \o n)
      PROVE  FALSE
  <2>1. c \o n \in Seq(Text) /\ Len(c \o n) = Len(c) + Len(n)
    BY <1>3
  <2>2. Len(d) < Len(c \o n) /\ \A i \in 1 .. Len(d) : (c \o n)[i] = d[i]
    BY <1>1, <2>1, <1>5, MatchingPrefix
  <2>3. (c \o n)[Len(d)] = n[Len(d) - Len(c)] /\ Len(d) - Len(c) \in 1 .. Len(n)
    BY <1>1, <1>2, <1>3, <2>1, <2>2
  <2>4. n[Len(d) - Len(c)] \in Digit
    BY <2>3
  <2> QED BY <1>1, <1>2, <2>2, <2>3, <2>4
<1> QED BY <1>4, <1>5 DEF d

(* A text is a suffix of every text it ends.                               *)
LEMMA SuffixOfConcat ==
  ASSUME NEW Text, NEW a \in Seq(Text), NEW s \in Seq(Text)
  PROVE  Cfg!IsSuffix(s, a \o s)
<1> DEFINE t == a \o s
<1>1. t \in Seq(Text) /\ Len(t) = Len(a) + Len(s)
  OBVIOUS
<1>2. \A i \in 1 .. Len(s) : t[Len(t) - i + 1] = s[Len(s) - i + 1]
  OBVIOUS
<1> HIDE DEF t
<1> DEFINE rs == [i \in 1 .. Len(s) |-> s[Len(s) - i + 1]]
           rt == [i \in 1 .. Len(t) |-> t[Len(t) - i + 1]]
<1>3. rs \in Seq(Text) /\ Len(rs) = Len(s) /\ \A i \in 1 .. Len(s) : rs[i] = s[Len(s) - i + 1]
  OBVIOUS
<1>4. rt \in Seq(Text) /\ Len(rt) = Len(t) /\ \A i \in 1 .. Len(t) : rt[i] = t[Len(t) - i + 1]
  BY <1>1
<1>5. Cfg!Reverse(s) = rs /\ Cfg!Reverse(t) = rt
  BY DEF Cfg!Reverse
<1> HIDE DEF rs, rt
<1>6. \A i \in 1 .. Len(s) : rs[i] = rt[i]
  BY <1>1, <1>2, <1>3, <1>4
<1>7. Len(rs) <= Len(rt) /\ SubSeq(rs, 1, Len(rs)) = SubSeq(rt, 1, Len(rs))
  BY <1>1, <1>3, <1>4, <1>6
<1> QED BY <1>5, <1>7 DEF Cfg!IsSuffix, Cfg!IsPrefix, t

(* Concatenation as an operator, which the provers instantiate.            *)
Concat(s, t) == s \o t
(* It is associative.                                                      *)
LEMMA ConcatMoves ==
  ASSUME NEW Text, NEW a \in Seq(Text), NEW b \in Seq(Text), NEW c \in Seq(Text)
  PROVE  /\ Concat(a, b) \in Seq(Text)
         /\ Concat(Concat(a, b), c) = Concat(a, Concat(b, c))
BY ConcatAssociative DEF Concat

(* A derived prefix ends in the host id between separators.                *)
LEMMA OwnSuffix ==
  ASSUME NEW Text, NEW a \in Seq(Text), NEW p \in Seq(Text), NEW s \in Seq(Text), NEW h \in Seq(Text)
  PROVE  Cfg!IsSuffix(s \o h \o s, a \o p \o s \o h \o s)
<1> DEFINE ap == Concat(a, p)
           own == Concat(Concat(s, h), s)
<1>1. ap \in Seq(Text) /\ own \in Seq(Text) /\ Concat(h, s) \in Seq(Text)
  BY ConcatMoves
<1>2. Concat(Concat(ap, s), h) = Concat(ap, Concat(s, h))
  BY <1>1, ConcatMoves
<1>3. Concat(Concat(ap, Concat(s, h)), s) = Concat(ap, own)
  <2>1. Concat(s, h) \in Seq(Text)
    BY ConcatMoves
  <2> QED BY <1>1, <2>1, ConcatMoves
<1>4. Concat(Concat(Concat(ap, s), h), s) = Concat(ap, own)
  BY <1>2, <1>3
<1>5. Cfg!IsSuffix(own, ap \o own)
  <2> HIDE DEF ap, own
  <2> QED BY <1>1, SuffixOfConcat
<1> QED BY <1>4, <1>5 DEF Concat

(* config.rs 555: rewriting a prefix a second time changes nothing, so     *)
(* what is validated with the derived prefix is what runs.                 *)
THEOREM RewriteOnce ==
  ASSUME NEW Text, {"s", "g", "-"} \subseteq Text, NEW c \in Seq(Text), NEW h \in Seq(Text)
  PROVE  Cfg!effective_prefix(Cfg!effective_prefix(c, h, FALSE), h, FALSE)
           = Cfg!effective_prefix(c, h, FALSE)
<1>1. CASE Cfg!effective_prefix(c, h, FALSE) = c
  BY <1>1
<1>2. CASE Cfg!effective_prefix(c, h, FALSE) # c
  <2>1. PICK stem \in Seq(Text) : stem = Cfg!Stem
    <3>1. Cfg!Stem \in Seq(Text)
      BY DEF Cfg!Stem
    <3> QED BY <3>1
  <2>2. PICK sep \in Seq(Text) : sep = Cfg!Separator
    <3>1. Cfg!Separator \in Seq(Text)
      BY DEF Cfg!Separator
    <3> QED BY <3>1
  <2>3. PICK pool \in Seq(Text) : pool = Cfg!pool_of_prefix(c)
    BY PoolOfPrefix
  <2>4. Cfg!effective_prefix(c, h, FALSE) = stem \o pool \o sep \o h \o sep
    BY <1>2, <2>1, <2>2, <2>3 DEF Cfg!effective_prefix
  <2>5. Cfg!IsSuffix(sep \o h \o sep, stem \o pool \o sep \o h \o sep)
    BY Zenon, OwnSuffix
  <2> QED BY <2>2, <2>4, <2>5 DEF Cfg!effective_prefix
<1> QED BY <1>1, <1>2

(* d has h after a.                                                        *)
Spans(d, a, h, s) ==
  /\ Len(d) = Len(a) + Len(h) + Len(s)
  /\ \A i \in 1 .. Len(h) : d[Len(a) + i] = h[i]

(* A concatenation has its middle part in the middle.                      *)
LEMMA MiddleOf ==
  ASSUME NEW Text, NEW a \in Seq(Text), NEW h \in Seq(Text), NEW s \in Seq(Text)
  PROVE  Spans(a \o h \o s, a, h, s)
<1>1. PICK x \in Seq(Text) : x = a \o h
  <2>1. a \o h \in Seq(Text)
    OBVIOUS
  <2> QED BY <2>1
<1>2. Len(x) = Len(a) + Len(h) /\ \A i \in 1 .. Len(h) : x[Len(a) + i] = h[i]
  BY <1>1
<1>3. Len(x \o s) = Len(x) + Len(s) /\ \A i \in 1 .. Len(x) : (x \o s)[i] = x[i]
  OBVIOUS
<1>4. \A i \in 1 .. Len(h) : Len(a) + i \in 1 .. Len(x)
  BY <1>2
<1> QED BY <1>1, <1>2, <1>3, <1>4 DEF Spans

(* Between the same texts, different texts make different ones.            *)
LEMMA MiddleDecides ==
  ASSUME NEW Text, NEW a \in Seq(Text), NEW g \in Seq(Text), NEW h \in Seq(Text), NEW s \in Seq(Text),
         a \o g \o s = a \o h \o s
  PROVE  g = h
<1>1. PICK d : d = a \o g \o s /\ d = a \o h \o s
  OBVIOUS
<1>2. Spans(d, a, g, s)
  BY <1>1, MiddleOf
<1>3. Spans(d, a, h, s)
  BY <1>1, MiddleOf
<1>4. Len(g) = Len(h)
  BY <1>2, <1>3 DEF Spans
<1> QED BY <1>2, <1>3, <1>4 DEF Spans

(* ownership.rs 48: two hosts that derive their prefixes from one          *)
(* configured prefix never claim the same worker.                          *)
THEOREM HostsDeriveTheirOwn ==
  ASSUME "-" \notin Digit, NEW Text, {"s", "g", "-"} \subseteq Text, NEW c \in Seq(Text),
         NEW g \in Seq(Text), NEW h \in Seq(Text), g # h,
         Cfg!effective_prefix(c, g, FALSE) # c, Cfg!effective_prefix(c, h, FALSE) # c,
         NEW w \in Seq(Text)
  PROVE  ~(/\ Cfg!matches_worker_prefix(Cfg!effective_prefix(c, g, FALSE), w)
           /\ Cfg!matches_worker_prefix(Cfg!effective_prefix(c, h, FALSE), w))
<1>1. PICK stem \in Seq(Text) : stem = Cfg!Stem
  <2>1. Cfg!Stem \in Seq(Text)
    BY DEF Cfg!Stem
  <2> QED BY <2>1
<1>2. PICK sep \in Seq(Text) : sep = Cfg!Separator
  <2>1. Cfg!Separator \in Seq(Text)
    BY DEF Cfg!Separator
  <2> QED BY <2>1
<1>3. PICK pool \in Seq(Text) : pool = Cfg!pool_of_prefix(c)
  BY PoolOfPrefix
<1>4. PICK front \in Seq(Text) : front = stem \o pool \o sep
  <2>1. PICK part \in Seq(Text) : part = stem \o pool
    <3>1. stem \o pool \in Seq(Text)
      BY Zenon, Join
    <3> QED BY <3>1
  <2>2. part \o sep \in Seq(Text)
    BY Zenon, Join
  <2> QED BY <2>1, <2>2
<1>5. /\ Cfg!effective_prefix(c, g, FALSE) = front \o g \o sep
      /\ Cfg!effective_prefix(c, h, FALSE) = front \o h \o sep
  BY <1>1, <1>2, <1>3, <1>4 DEF Cfg!effective_prefix
<1>6. front \o g \o sep # front \o h \o sep
  BY Zenon, MiddleDecides
<1>7. Cfg!effective_prefix(c, g, FALSE) # Cfg!effective_prefix(c, h, FALSE)
  BY <1>5, <1>6
<1>8. PICK d \in Seq(Text) : d = Cfg!effective_prefix(c, g, FALSE) /\ EndsInSeparator(d)
  BY DerivedPrefix
<1>9. PICK e \in Seq(Text) : e = Cfg!effective_prefix(c, h, FALSE) /\ EndsInSeparator(e)
  BY DerivedPrefix
<1> QED BY <1>7, <1>8, <1>9, PrefixesAreTellable

-----------------------------------------------------------------------------
(* Repositories, and the policies of windows.                              *)

(* table: the record of each host, which has pulled all the others.        *)
OthersOf(table, host) == {table[g] : g \in DOMAIN table \ {host}}
KeepsPath(table, repo_owners, host, path) ==
  /\ path \in DOMAIN table[host].workspace_origins
  /\ path \notin Rec!resolve_workspace_overlap(host, table[host].workspace_origins,
                                               OthersOf(table, host), repo_owners)
Listing(table, origin) == {h \in DOMAIN table : origin \in Rec!Range(table[h].workspace_origins)}

(* What a host keeps is decided by the hosts that list it, the same set    *)
(* seen from each of them.                                                 *)
Chosen(table, repo_owners, host, origin) ==
  \/ Listing(table, origin) = {host}
  \/ Rec!workspace_owner(origin, repo_owners, Listing(table, origin)) = host

(* resolve_workspace_overlap keeps a path when its host is chosen.         *)
LEMMA KeepsMeans ==
  ASSUME NEW table, NEW repo_owners, \A h \in DOMAIN table : table[h].host_id = h,
         NEW host \in DOMAIN table, NEW path \in DOMAIN table[host].workspace_origins,
         NEW origin, origin = table[host].workspace_origins[path]
  PROVE  KeepsPath(table, repo_owners, host, path)
           <=> Chosen(table, repo_owners, host, origin)
<1> DEFINE records == OthersOf(table, host)
           holders == {r.host_id : r \in {q \in records : origin \in Rec!Range(q.workspace_origins)}}
<1>1. origin \in Rec!Range(table[host].workspace_origins)
  BY DEF Rec!Range
<1>2. holders = Listing(table, origin) \ {host}
  BY DEF OthersOf, Listing
<1>3. {host} \cup holders = Listing(table, origin)
  BY <1>1, <1>2 DEF Listing
<1>4. path \in Rec!resolve_workspace_overlap(host, table[host].workspace_origins, records, repo_owners)
        <=> /\ holders # {}
            /\ Rec!workspace_owner(origin, repo_owners, {host} \cup holders) # host
  BY DEF Rec!resolve_workspace_overlap
<1>5. holders = {} <=> Listing(table, origin) = {host}
  BY <1>2, <1>3
<1> HIDE DEF holders
<1> QED BY <1>3, <1>4, <1>5 DEF KeepsPath, Chosen

(* ownership.rs 257: hosts that see each other's records never both keep   *)
(* one repository, whatever paths they have it under.                      *)
THEOREM OneKeeper ==
  ASSUME NEW table, NEW repo_owners, \A h \in DOMAIN table : table[h].host_id = h,
         NEW g \in DOMAIN table, NEW p, KeepsPath(table, repo_owners, g, p),
         NEW h \in DOMAIN table, NEW q, KeepsPath(table, repo_owners, h, q),
         table[g].workspace_origins[p] = table[h].workspace_origins[q]
  PROVE  g = h
<1>1. p \in DOMAIN table[g].workspace_origins /\ q \in DOMAIN table[h].workspace_origins
  BY DEF KeepsPath
<1>2. PICK origin : /\ origin = table[g].workspace_origins[p]
                   /\ origin = table[h].workspace_origins[q]
  OBVIOUS
<1>3. g \in Listing(table, origin) /\ h \in Listing(table, origin)
  BY <1>1, <1>2 DEF Listing, Rec!Range
<1>4. Chosen(table, repo_owners, g, origin)
  BY <1>1, <1>2, KeepsMeans
<1>5. Chosen(table, repo_owners, h, origin)
  BY <1>1, <1>2, KeepsMeans
<1> QED BY <1>3, <1>4, <1>5 DEF Chosen

(* ownership.rs 125: some host keeps it, unless it is assigned to a host   *)
(* that does not list it.                                                  *)
THEOREM SomeKeeper ==
  ASSUME NEW table, NEW repo_owners, \A h \in DOMAIN table : table[h].host_id = h,
         \A n \in DOMAIN table : Rank[n] \in Nat,
         NEW host \in DOMAIN table, NEW path \in DOMAIN table[host].workspace_origins,
         NEW origin, origin = table[host].workspace_origins[path],
         origin \in DOMAIN repo_owners => repo_owners[origin] \in Listing(table, origin)
  PROVE  \E h \in DOMAIN table : \E q \in DOMAIN table[h].workspace_origins :
           table[h].workspace_origins[q] = origin /\ KeepsPath(table, repo_owners, h, q)
<1> DEFINE listing == Listing(table, origin)
           owner == Rec!workspace_owner(origin, repo_owners, listing)
<1>1. host \in listing /\ listing \subseteq DOMAIN table
  BY DEF Listing, Rec!Range
<1>2. owner \in listing
  <2>1. CASE origin \in DOMAIN repo_owners
    BY <2>1 DEF Rec!workspace_owner
  <2>2. CASE origin \notin DOMAIN repo_owners
    <3> DEFINE ranks == {Rank[n] : n \in listing}
    <3>1. ranks \in SUBSET Nat /\ ranks # {}
      BY <1>1
    <3>2. PICK low \in ranks : \A m \in ranks : low <= m
      <4> HIDE DEF ranks
      <4> QED BY <3>1, LeastNatural
    <3>3. \E n \in listing : \A m \in listing : Rank[n] <= Rank[m]
      BY <3>2
    <3>4. owner = CHOOSE n \in listing : \A m \in listing : Rank[n] <= Rank[m]
      BY <2>2 DEF Rec!workspace_owner, Rec!First
    <3> HIDE DEF listing, owner
    <3> QED BY <3>3, <3>4
  <2> QED BY <2>1, <2>2
<1>3. PICK q \in DOMAIN table[owner].workspace_origins : table[owner].workspace_origins[q] = origin
  BY <1>2 DEF Listing, Rec!Range
<1>4. owner \in DOMAIN table
  BY <1>1, <1>2
<1>5. KeepsPath(table, repo_owners, owner, q)
  <2> HIDE DEF owner
  <2>1. Chosen(table, repo_owners, owner, origin)
    BY DEF owner, Chosen
  <2> QED BY <1>3, <1>4, <2>1, KeepsMeans
<1> QED BY <1>3, <1>4, <1>5

(* config.rs 774: every window of a validated utilization block resolves   *)
(* to a target in (0, 1], or to none exactly when it is disabled; the      *)
(* expect never panics.                                                    *)
THEOREM PoliciesResolve ==
  ASSUME NEW u, Cfg!ValidUtilization(u), NEW id
  PROVE  /\ \A policy \in Cfg!policy_for(u, id) : policy.target \in 1 .. Unit
         /\ Cfg!policy_for(u, id) = {} <=> id \in DOMAIN u.windows /\ u.windows[id].enabled = {FALSE}
<1> DEFINE own == IF id \in DOMAIN u.windows THEN u.windows[id] ELSE Cfg!NoOverride
<1>1. /\ own.target_utilization \subseteq 1 .. Unit
      /\ own.reserve_fraction \subseteq 0 .. Unit - 1
  BY SaturationPolicy DEF Cfg!ValidUtilization, Cfg!ValidWindow, Cfg!validate_target, Cfg!NoOverride, Cfg!None
<1>2. /\ u.target_utilization \subseteq 1 .. Unit
      /\ u.reserve_fraction \subseteq 0 .. Unit - 1
      /\ u.target_utilization \cup u.reserve_fraction # {}
  BY DEF Cfg!ValidUtilization, Cfg!validate_target, Cfg!None
<1>3. own.enabled = {FALSE} <=> id \in DOMAIN u.windows /\ u.windows[id].enabled = {FALSE}
  BY DEF Cfg!NoOverride, Cfg!None
<1>4. Cfg!policy_for(u, id) =
        IF own.enabled = {FALSE} THEN {}
        ELSE {[target |-> Cfg!Sole(Cfg!Targets(u, own)),
               burn_rate_window_seconds |-> own.burn_rate_window_seconds,
               strategy |-> Cfg!Sole(Cfg!OrElse(own.strategy, {u.strategy}))]}
  BY DEF Cfg!policy_for, Cfg!None
<1> HIDE DEF own
<1>5. Cfg!Targets(u, own) # {} /\ Cfg!Targets(u, own) \subseteq 1 .. Unit
  <2>1. \A S : S \subseteq 0 .. Unit - 1 => Cfg!Complement(S) \subseteq 1 .. Unit
    <3> SUFFICES ASSUME NEW S \in SUBSET (0 .. Unit - 1), NEW part \in S
                 PROVE  Unit - part \in 1 .. Unit
      BY DEF Cfg!Complement
    <3> QED BY SaturationPolicy
  <2>2. \A S : Cfg!Complement(S) = {} <=> S = {}
    BY DEF Cfg!Complement
  <2> QED BY <1>1, <1>2, <2>1, <2>2 DEF Cfg!Targets, Cfg!OrElse, Cfg!None
<1>6. Cfg!Sole(Cfg!Targets(u, own)) \in 1 .. Unit
  BY <1>5 DEF Cfg!Sole
<1>7. CASE own.enabled = {FALSE}
  BY <1>3, <1>4, <1>7
<1>8. CASE own.enabled # {FALSE}
  <2> DEFINE resolved == [target |-> Cfg!Sole(Cfg!Targets(u, own)),
                          burn_rate_window_seconds |-> own.burn_rate_window_seconds,
                          strategy |-> Cfg!Sole(Cfg!OrElse(own.strategy, {u.strategy}))]
  <2>1. Cfg!policy_for(u, id) = {resolved}
    BY <1>4, <1>8
  <2>2. resolved.target \in 1 .. Unit
    BY <1>6
  <2> HIDE DEF resolved
  <2> QED BY <1>3, <1>8, <2>1, <2>2
<1> QED BY <1>7, <1>8
=============================================================================
