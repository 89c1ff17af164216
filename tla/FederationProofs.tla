-------------------------- MODULE FederationProofs ---------------------------
(***************************************************************************)
(* Federation implements PeerPolicy, its shares add up and it never grows  *)
(* into idle room: for any number of hosts, any fleet, ceilings, demands   *)
(* and readings, any loss, delay and order of records, and any restarts.   *)
(*                                                                         *)
(* Everything rests on the split: TableInv keeps the counts of every host  *)
(* and every record inside the range that the split is defined for, and    *)
(* SplitDivides, from DistributeDivides, says what a share is.             *)
(***************************************************************************)
EXTENDS Federation, CountLemmas

-----------------------------------------------------------------------------
(* split_account_total.                                                    *)
EntryType == [workers : Nat, ceiling : Nat, demand : Nat]

LEMMA ShareCapBounds ==
  ASSUME NEW host \in EntryType
  PROVE  /\ ShareCap(host) \in Nat
         /\ ShareCap(host) <= host.ceiling
         /\ ShareCap(host) > host.workers => host.demand > 0
<1>1. host.workers \in Nat /\ host.ceiling \in Nat /\ host.demand \in Nat
  BY DEF EntryType
<1> QED BY <1>1 DEF ShareCap, Min2

(* The shares stay within the total, and a host gains workers only for     *)
(* work it has and below its own ceiling.                                  *)
Shares(D, hosts, total, share) ==
  /\ share \in [D -> Nat]
  /\ SumOver(share, D) <= total
  /\ \A h \in D : share[h] > hosts[h].workers =>
                     hosts[h].demand > 0 /\ share[h] <= hosts[h].ceiling

LEMMA SplitDivides ==
  ASSUME NEW D, IsFiniteSet(D), D \subseteq Nat, NEW hosts \in [D -> EntryType],
         NEW total \in Nat, NEW short
  PROVE  Shares(D, hosts, total, SplitTotal(total, hosts, short))
<1> DEFINE workersOf == [h \in D |-> hosts[h].workers]
           running == SumOver(workersOf, D)
           headroom == [h \in D |-> SaturatingSub(hosts[h].ceiling, hosts[h].workers)]
           grows == total >= running
           cap == [h \in D |-> IF grows THEN SaturatingSub(ShareCap(hosts[h]), hosts[h].workers)
                                        ELSE ShareCap(hosts[h])]
           eligible == {h \in D : IF grows THEN cap[h] > 0 ELSE hosts[h].demand > 0}
           budget == IF grows THEN total - running ELSE total
           spread == Distribute(budget, eligible, headroom, cap, 1, short)
           base == [h \in D |-> IF grows THEN hosts[h].workers ELSE 0]
           share == SplitTotal(total, hosts, short)
<1>1. \A h \in D : /\ hosts[h] \in EntryType
                   /\ hosts[h].workers \in Nat /\ hosts[h].ceiling \in Nat /\ hosts[h].demand \in Nat
  BY DEF EntryType
<1>2. \A h \in D : ShareCap(hosts[h]) \in Nat /\ ShareCap(hosts[h]) <= hosts[h].ceiling
  BY <1>1, ShareCapBounds
<1>3. /\ workersOf \in [D -> Nat] /\ running \in Nat
  <2>1. workersOf \in [D -> Nat]
    BY <1>1
  <2> HIDE DEF workersOf
  <2> QED BY <2>1, SumOverNat
<1>4. headroom \in [D -> Nat] /\ cap \in [D -> Nat]
  BY <1>1, <1>2 DEF SaturatingSub
<1>5. budget \in Nat
  BY <1>3
<1>6. share = [h \in D |-> base[h] + spread[h]]
  BY DEF SplitTotal
<1> HIDE DEF spread, share, running
<1>7. /\ spread \in [D -> Nat] /\ SumOver(spread, D) <= budget
      /\ \A h \in D : IF h \in eligible THEN spread[h] <= cap[h] ELSE spread[h] = 0
  <2> HIDE DEF budget, headroom, cap, eligible
  <2>1. Divisible(D, eligible, headroom, cap)
    BY <1>4 DEF Divisible, eligible
  <2>2. Divides(D, budget, eligible, cap, spread)
    BY <1>5, <2>1, DistributeDivides DEF spread
  <2> QED BY <2>2 DEF Divides, Within
<1>8. share \in [D -> Nat]
  BY <1>1, <1>6, <1>7
<1>9. SumOver(share, D) <= total
  <2>1. \A h \in D : base[h] \in Nat /\ spread[h] \in Nat
    BY <1>1, <1>7
  <2>2. SumOver(share, D) = SumOver(base, D) + SumOver(spread, D)
    <3> HIDE DEF base
    <3> QED BY <1>6, <2>1, SumPlus
  <2>3. SumOver(spread, D) \in Nat
    BY <2>1, SumOverNat
  <2>4. CASE grows
    <3>1. base = workersOf
      BY <2>4
    <3>2. SumOver(base, D) = running
      BY <3>1 DEF running
    <3> QED BY <1>3, <1>7, <2>2, <2>3, <2>4, <3>2
  <2>5. CASE ~grows
    <3>1. \A h \in D : base[h] = 0
      BY <2>5
    <3> HIDE DEF base
    <3>2. SumOver(base, D) = 0
      BY <3>1, SumZero
    <3> QED BY <1>3, <1>7, <2>2, <2>3, <2>5, <3>2
  <2> QED BY <2>4, <2>5
<1>10. ASSUME NEW h \in D, share[h] > hosts[h].workers
       PROVE  hosts[h].demand > 0 /\ share[h] <= hosts[h].ceiling
  <2>1. share[h] = base[h] + spread[h] /\ spread[h] \in Nat
    BY <1>6, <1>7
  <2>2. ShareCap(hosts[h]) > hosts[h].workers => hosts[h].demand > 0
    BY <1>1, ShareCapBounds
  <2>3. CASE grows
    <3>1. base[h] = hosts[h].workers /\ cap[h] = SaturatingSub(ShareCap(hosts[h]), hosts[h].workers)
      BY <2>3
    <3>2. spread[h] > 0
      BY <1>1, <1>10, <2>1, <3>1
    <3>3. h \in eligible /\ spread[h] <= cap[h]
      BY <1>7, <3>2
    <3> QED BY <1>1, <1>2, <2>1, <2>2, <3>1, <3>2, <3>3 DEF SaturatingSub
  <2>4. CASE ~grows
    <3>1. base[h] = 0 /\ cap[h] = ShareCap(hosts[h])
      BY <2>4
    <3>2. spread[h] > 0
      BY <1>1, <1>10, <2>1, <3>1
    <3>3. h \in eligible /\ spread[h] <= cap[h]
      BY <1>7, <3>2
    <3>4. hosts[h].demand > 0
      BY <2>4, <3>3
    <3> QED BY <1>1, <1>2, <2>1, <3>1, <3>3, <3>4
  <2> QED BY <2>3, <2>4
<1> QED BY <1>8, <1>9, <1>10 DEF share, Shares

-----------------------------------------------------------------------------
(* freshest_used_fraction.                                                 *)
LEMMA MaxIsMember ==
  ASSUME NEW S \in SUBSET Nat, IsFiniteSet(S), S # {}
  PROVE  Max(S) \in S
<1> DEFINE Has(T) == \E x \in T : \A y \in T : x >= y
           G == {T \in SUBSET S : T = {} \/ Has(T)}
<1>1. {} \in G
  OBVIOUS
<1>2. ASSUME NEW T \in G, NEW x \in S \ T
      PROVE  T \cup {x} \in G
  <2>1. CASE T = {}
    BY <2>1
  <2>2. CASE T # {}
    <3>1. PICK m \in T : \A y \in T : m >= y
      BY <2>2
    <3>2. m \in Nat /\ x \in Nat /\ T \subseteq Nat
      OBVIOUS
    <3>3. CASE m >= x
      BY <3>1, <3>3
    <3>4. CASE ~(m >= x)
      <4>1. \A y \in T \cup {x} : x >= y
        BY <3>1, <3>2, <3>4
      <4> QED BY <4>1
    <3> QED BY <3>3, <3>4
  <2> QED BY <2>1, <2>2
<1>3. S \in G
  <2> HIDE DEF G
  <2> QED BY ZenonT(60), <1>1, <1>2, SubsetInduction
<1> QED BY <1>3 DEF Max

LEMMA HeldFractionIsRead ==
  ASSUME NEW samples \in SUBSET [age : {0, 1}, used : Useds], samples # {}
  PROVE  HeldFraction(samples) \in Useds
<1> DEFINE freshest == {s \in samples : \A t \in samples : s.age <= t.age}
           read == {s.used : s \in freshest}
           all == {s.used : s \in samples}
<1>1. freshest # {}
  <2>1. \A s \in samples : s.age \in {0, 1}
    OBVIOUS
  <2>2. CASE \E s \in samples : s.age = 0
    BY <2>1, <2>2
  <2>3. CASE \A s \in samples : s.age = 1
    BY <2>3
  <2> QED BY <2>1, <2>2, <2>3
<1>2. read \subseteq all /\ all \subseteq Useds /\ read # {} /\ all # {}
  BY <1>1
<1>3. Useds \subseteq Nat /\ IsFiniteSet(Useds)
  BY FederationAssumption
<1> HIDE DEF read, all
<1>4. /\ read \in SUBSET Nat /\ IsFiniteSet(read)
      /\ all \in SUBSET Nat /\ IsFiniteSet(all)
  BY <1>2, <1>3, FS_Subset
<1>5. Max(read) \in Useds /\ Max(all) \in Useds
  BY <1>2, <1>4, MaxIsMember
<1> QED BY <1>5 DEF HeldFraction, read, all

-----------------------------------------------------------------------------
(* Every count of a host or a record is in the fleet range, whoever is     *)
(* heard when, and every age is within the expiry.                         *)
Held == [workers : 0 .. Fleet.max_workers, demand : Demands \cup {0},
         kind : {"none", "same", "other", "unmeasured"}]

TableInv ==
  /\ workers \in [Hosts -> 0 .. Fleet.max_workers]
  /\ demand \in [Hosts -> Demands]
  /\ record = [h \in Hosts |-> record[h]]
  /\ \A h \in Hosts : record[h] \in [Peers(h) -> Held]
  /\ age = [h \in Hosts |-> age[h]]
  /\ \A h \in Hosts : age[h] \in [Peers(h) -> 0 .. Expiry]
  /\ pulled \subseteq Hosts
  /\ level \in Useds \cup {Unsettled}

LEMMA SeenType ==
  ASSUME TableInv, NEW h \in Hosts
  PROVE  /\ SeenHosts(h) \in [{h} \cup Sharing(h) -> Entries]
         /\ Sharing(h) \subseteq Hosts
         /\ SeenHosts(h)[h] = HostEntry(workers[h], Ceiling[h], demand[h])
<1>1. Fleet.max_workers \in Nat /\ Demands \subseteq Nat /\ Ceiling \in [Hosts -> Nat]
  BY FederationAssumption DEF Fleets
<1>2. Sharing(h) \subseteq Peers(h) /\ Peers(h) \subseteq Hosts /\ h \notin Peers(h)
  BY DEF Sharing, Peers
<1>3. HostEntry(workers[h], Ceiling[h], demand[h]) \in Entries
  BY <1>1 DEF TableInv, HostEntry, Entries
<1>4. ASSUME NEW g \in Sharing(h)
      PROVE  HostEntry(Contribution(h, g).workers,
                       IF record[h][g].kind = "unmeasured" THEN Fleet.max_workers ELSE Ceiling[g],
                       Contribution(h, g).demand) \in Entries
  <2>1. Contribution(h, g) \in Held
    BY <1>1, <1>2 DEF TableInv, Contribution, Held, NoRecord
  <2> QED BY <1>2, <2>1 DEF HostEntry, Entries, Held
<1> QED BY <1>2, <1>3, <1>4 DEF SeenHosts

LEMMA EntriesAreTyped ==
  Entries \subseteq EntryType
<1>1. Fleet.max_workers \in Nat /\ Demands \subseteq Nat /\ Ceiling \in [Hosts -> Nat]
  BY FederationAssumption DEF Fleets
<1>2. ASSUME NEW e \in Entries
      PROVE  e \in EntryType
  <2>0. e.workers \in 0 .. Fleet.max_workers /\ e.demand \in Demands \cup {0}
    BY DEF Entries
  <2>1. e.workers \in Nat
    BY <1>1, <2>0
  <2>4. e.demand \in Nat
    <3>1. 0 \in Nat
      OBVIOUS
    <3> QED BY <1>1, <2>0, <3>1, Zenon
  <2>2. e.ceiling = Fleet.max_workers \/ \E h \in Hosts : e.ceiling = Ceiling[h]
    BY DEF Entries
  <2>3. e.ceiling \in Nat
    BY <1>1, <2>2
  <2> QED BY <2>1, <2>3, <2>4 DEF Entries, EntryType
<1> QED BY <1>2

(* The shares of a table: SplitDivides for the cached split.               *)
LEMMA ShareBounds ==
  ASSUME NEW S \in SUBSET Hosts, S # {}, NEW seen \in [S -> Entries],
         NEW total \in 0 .. Fleet.max_workers, NEW rounded \in BOOLEAN
  PROVE  Shares(S, seen, total, Split[total][seen][rounded])
<1> DEFINE short == IF rounded THEN DOMAIN seen ELSE {}
           share == Split[total][seen][rounded]
<1>1. share = SplitTotal(total, seen, short)
  <2>1. seen \in UNION {[T -> Entries] : T \in (SUBSET Hosts) \ {{}}}
    OBVIOUS
  <2> QED BY <2>1 DEF Split
<1>2. seen \in [S -> EntryType] /\ total \in Nat
  BY EntriesAreTyped, FederationAssumption DEF Fleets
<1>3. IsFiniteSet(S) /\ S \subseteq Nat
  BY FederationAssumption, FS_Subset
<1> HIDE DEF short, share
<1> QED BY <1>1, <1>2, <1>3, SplitDivides DEF share

LEMMA TotalInFleet ==
  ASSUME TableInv, NEW h \in Hosts, NEW samples \in SampleSets(h)
  PROVE  SharedTotal(samples, Denominator(SeenHosts(h))) \in 0 .. Fleet.max_workers
<1> DEFINE running == Denominator(SeenHosts(h))
           desired == IF samples = {} THEN running ELSE RawTarget[HeldFraction(samples)]
<1>1. running \in Nat
  <2> DEFINE S == {h} \cup Sharing(h)
             counts == [g \in DOMAIN SeenHosts(h) |-> SeenHosts(h)[g].workers]
  <2>1. SeenHosts(h) \in [S -> EntryType] /\ S \subseteq Hosts
    BY SeenType, EntriesAreTyped
  <2>2. IsFiniteSet(S) /\ DOMAIN SeenHosts(h) = S
    BY <2>1, FederationAssumption, FS_Subset
  <2>3. \A g \in S : counts[g] \in Nat
    BY <2>1, <2>2 DEF EntryType
  <2> HIDE DEF S, counts
  <2>4. SumOver(counts, S) \in Nat
    BY <2>2, <2>3, SumOverNat
  <2> QED BY <2>2, <2>4 DEF Denominator, counts
<1> HIDE DEF running
<1>2. samples \in SUBSET [age : {0, 1}, used : Useds]
  BY DEF SampleSets, TableInv, calm
<1>3. desired \in Nat
  BY <1>1, <1>2, HeldFractionIsRead, FederationAssumption
<1>4. Fleet \in Fleets
  BY FederationAssumption
<1> HIDE DEF desired
<1>5. ApplyStepLimits(desired, running, Fleet) \in Fleet.min_workers .. Fleet.max_workers
  BY <1>1, <1>3, <1>4, StepLimitsHold
<1>6. Fleet.min_workers \in Nat /\ Fleet.max_workers \in Nat
  BY <1>4 DEF Fleets
<1> QED BY <1>5, <1>6 DEF SharedTotal, desired, running

(* What a decision of one host may do to its workers.                      *)
MayBecome(h, n) ==
  /\ n \in 0 .. Fleet.max_workers
  /\ n > workers[h] => demand[h] > 0 /\ n <= Ceiling[h] /\ ~AnyPeerStale(h)

LEMMA GatedBounds ==
  ASSUME NEW h, NEW total, NEW answered, workers[h] \in Nat, StepUp[h] \in Nat,
         NEW target \in Nat, SaturatingSub(total, workers[h]) \in Nat,
         SumOver(workers, answered) \in Nat
  PROVE  LET n == Gated(h, total, target, answered)
         IN  n \in Nat /\ n <= target
<1>1. CASE target <= workers[h]
  BY <1>1 DEF Gated
<1>2. CASE ~(target <= workers[h])
  <2> DEFINE room == SaturatingSub(SaturatingSub(total, workers[h]), SumOver(workers, answered))
             step == Min2(target - workers[h], StepUp[h])
  <2>1. room \in Nat
    BY SaturatingSubNat
  <2>2. target - workers[h] \in Nat
    BY <1>2
  <2>3. step \in Nat /\ step <= target - workers[h]
    BY <2>2 DEF Min2
  <2> HIDE DEF room, step
  <2>4. Min2(step, room) \in Nat /\ Min2(step, room) <= step
    BY <2>1, <2>3 DEF Min2
  <2>5. Gated(h, total, target, answered) = workers[h] + Min2(step, room)
    BY <1>2 DEF Gated, room, step
  <2> QED BY <2>2, <2>3, <2>4, <2>5
<1> QED BY <1>1, <1>2

LEMMA TargetBounds ==
  ASSUME TableInv, NEW h \in Hosts, NEW total \in 0 .. Fleet.max_workers,
         NEW rounded \in BOOLEAN
  PROVE  MayBecome(h, Target(h, total, SeenHosts(h), rounded))
<1> DEFINE S == {h} \cup Sharing(h)
           seen == SeenHosts(h)
           share == Split[total][seen][rounded]
<1>0. Fleet.max_workers \in Nat /\ workers[h] \in 0 .. Fleet.max_workers
  BY FederationAssumption DEF Fleets, TableInv
<1>1. /\ seen \in [S -> Entries] /\ S \in SUBSET Hosts /\ S # {}
      /\ seen[h] = HostEntry(workers[h], Ceiling[h], demand[h])
  BY SeenType
<1> HIDE DEF seen
<1>2. Shares(S, seen, total, share)
  <2> HIDE DEF S
  <2> QED BY <1>1, ShareBounds
<1>3. IsFiniteSet(S)
  BY <1>1, FederationAssumption, FS_Subset
<1> HIDE DEF share
<1>4. share[h] \in Nat
  BY <1>2 DEF Shares
<1>5. share[h] <= total
  <2>1. \A g \in S : share[g] \in Nat
    BY <1>2 DEF Shares
  <2>2. SumOver(share, {h}) <= SumOver(share, S)
    <3>1. {h} \in SUBSET S
      OBVIOUS
    <3> HIDE DEF S
    <3> QED BY <1>3, <2>1, <3>1, SumSubset
  <2>3. SumOver(share, {h}) = share[h]
    <3>1. SumOver(share, {} \cup {h}) = SumOver(share, {}) + share[h]
      BY <1>3, <2>1, SumAdd
    <3>2. {} \cup {h} = {h}
      OBVIOUS
    <3>3. SumOver(share, {}) = 0
      BY SumEmpty
    <3> QED BY <1>4, <3>1, <3>2, <3>3
  <2>4. SumOver(share, S) \in Nat /\ SumOver(share, S) <= total
    <3>1. SumOver(share, S) <= total
      BY <1>2 DEF Shares
    <3> HIDE DEF S
    <3> QED BY <1>3, <2>1, <3>1, SumOverNat
  <2> QED BY <1>4, <2>2, <2>3, <2>4
<1>6. share[h] > workers[h] => demand[h] > 0 /\ share[h] <= Ceiling[h]
  BY <1>1, <1>2 DEF Shares, HostEntry
<1> QED BY <1>0, <1>4, <1>5, <1>6 DEF Target, MayBecome, Min2, share, seen

LEMMA DecideMoves ==
  ASSUME TableInv, NEW h \in Hosts, Decide(h)
  PROVE  \E n : MayBecome(h, n) /\ workers' = [workers EXCEPT ![h] = n]
<1>0. /\ workers \in [Hosts -> Nat] /\ workers[h] \in Nat /\ StepUp[h] \in Nat
      /\ Fleet.max_workers \in Nat /\ Ceiling[h] \in Nat
  BY FederationAssumption DEF Fleets, TableInv
<1>1. PICK samples \in SampleSets(h), rounded \in BOOLEAN, answered \in Repulled(h) :
        LET total == SharedTotal(samples, Denominator(SeenHosts(h)))
        IN  workers' = [workers EXCEPT
              ![h] = Gated(h, total, Target(h, total, SeenHosts(h), rounded), answered)]
  BY DEF Decide
<1> DEFINE total == SharedTotal(samples, Denominator(SeenHosts(h)))
           target == Target(h, total, SeenHosts(h), rounded)
           n == Gated(h, total, target, answered)
<1>2. total \in 0 .. Fleet.max_workers
  BY TotalInFleet
<1> HIDE DEF total
<1>3. MayBecome(h, target)
  BY <1>2, TargetBounds
<1> HIDE DEF target
<1>4. target \in Nat /\ total \in Nat
  BY <1>0, <1>2, <1>3 DEF MayBecome
<1>5. answered \subseteq Hosts
  BY DEF Repulled, Sharing, Peers
<1>6. SumOver(workers, answered) \in Nat
  <2>1. IsFiniteSet(answered)
    BY <1>5, FederationAssumption, FS_Subset
  <2>2. \A x \in answered : workers[x] \in Nat
    BY <1>0, <1>5
  <2> QED BY <2>1, <2>2, SumOverNat
<1>7. SaturatingSub(total, workers[h]) \in Nat
  BY <1>0, <1>4, SaturatingSubNat
<1>8. n \in Nat
  BY <1>0, <1>4, <1>6, <1>7, GatedBounds
<1>9. n <= target
  BY <1>0, <1>4, <1>6, <1>7, GatedBounds
<1> HIDE DEF n
<1>10. MayBecome(h, n)
  BY <1>0, <1>3, <1>4, <1>8, <1>9 DEF MayBecome
<1>11. workers' = [workers EXCEPT ![h] = n]
  BY <1>1 DEF n, target, total
<1> QED BY <1>10, <1>11

-----------------------------------------------------------------------------
(* The invariant.                                                          *)

(* What a pull that these peers answer leaves in the table of h.           *)
Pulls(h, answered, kind) ==
  /\ record' = [record EXCEPT ![h] = [p \in Peers(h) |->
                   IF p \notin answered THEN record[h][p]
                   ELSE IF kind[p] = "same" THEN Published(p)
                   ELSE [NoRecord EXCEPT !.kind = kind[p]]]]
  /\ age' = [age EXCEPT ![h] = [p \in Peers(h) |-> IF p \in answered THEN 0 ELSE age[h][p]]]

LEMMA InitTable ==
  Init => TableInv
<1> SUFFICES ASSUME Init
             PROVE  TableInv
  OBVIOUS
<1>1. Fleet.max_workers \in Nat /\ Expiry \in Nat /\ 0 \in 0 .. Expiry
  BY FederationAssumption DEF Fleets
<1>2. NoRecord \in Held
  BY <1>1 DEF NoRecord, Held
<1> QED BY <1>1, <1>2 DEF Init, TableInv, EmptyTable, Unsettled

LEMMA NextTable ==
  TableInv /\ [Next]_vars => TableInv'
<1> SUFFICES ASSUME TableInv, [Next]_vars
             PROVE  TableInv'
  OBVIOUS
<1> USE DEF TableInv
<1>0. /\ Fleet.max_workers \in Nat /\ Expiry \in Nat /\ 0 \in 0 .. Expiry
      /\ Kinds \subseteq {"same", "other", "unmeasured"}
  BY FederationAssumption DEF Fleets
<1>1. NoRecord \in Held
  BY <1>0 DEF NoRecord, Held
<1>2. CASE Tick
  <2>1. \A h \in Hosts : \A p \in Peers(h) : Min2(age[h][p] + 1, Expiry) \in 0 .. Expiry
    BY <1>0 DEF Min2
  <2>2. /\ age' = [h \in Hosts |-> age'[h]]
        /\ \A h \in Hosts : age'[h] \in [Peers(h) -> 0 .. Expiry]
    BY <1>2, <2>1 DEF Tick
  <2> QED BY <1>2, <2>2 DEF Tick
<1>3. CASE BecomeCalm
  BY <1>3 DEF BecomeCalm
<1>4. ASSUME NEW h \in Hosts, PullPeers(h)
      PROVE  TableInv'
  <2>1. PICK answered \in (IF calm THEN {Peers(h)} ELSE SUBSET Peers(h)) :
        \E kind \in [answered -> IF calm THEN {"same"} ELSE Kinds] : Pulls(h, answered, kind)
    BY <1>4, Zenon DEF PullPeers, Pulls
  <2>2. PICK kind \in [answered -> IF calm THEN {"same"} ELSE Kinds] : Pulls(h, answered, kind)
    BY <2>1
  <2>3. answered \in SUBSET Peers(h)
    OBVIOUS
  <2>4. \A p \in answered : kind[p] \in {"same", "other", "unmeasured"}
    BY <1>0
  <2>5. \A p \in answered : /\ Published(p) \in Held
                            /\ [NoRecord EXCEPT !.kind = kind[p]] \in Held
    BY <1>1, <2>3, <2>4 DEF Published, Held, NoRecord, Peers
  <2>6. record' = [g \in Hosts |-> record'[g]] /\ age' = [g \in Hosts |-> age'[g]]
    BY <2>2 DEF Pulls
  <2>7. record'[h] \in [Peers(h) -> Held] /\ age'[h] \in [Peers(h) -> 0 .. Expiry]
    BY <1>0, <2>2, <2>5 DEF Pulls
  <2>8. \A g \in Hosts \ {h} : record'[g] = record[g] /\ age'[g] = age[g]
    BY <2>2 DEF Pulls
  <2>9. \A g \in Hosts : record'[g] \in [Peers(g) -> Held] /\ age'[g] \in [Peers(g) -> 0 .. Expiry]
    BY <2>7, <2>8
  <2> QED BY <1>4, <2>6, <2>9 DEF PullPeers
<1>5. ASSUME NEW h \in Hosts, Decide(h)
      PROVE  TableInv'
  <2>1. PICK n : MayBecome(h, n) /\ workers' = [workers EXCEPT ![h] = n]
    BY <1>5, DecideMoves
  <2> QED BY <1>5, <2>1 DEF Decide, MayBecome
<1>6. ASSUME NEW h \in Hosts, CycleFails(h)
      PROVE  TableInv'
  BY <1>6 DEF CycleFails
<1>7. ASSUME NEW h \in Hosts, Restart(h)
      PROVE  TableInv'
  <2>1. record' = [g \in Hosts |-> record'[g]] /\ age' = [g \in Hosts |-> age'[g]]
    BY <1>7 DEF Restart
  <2>2. \A g \in Hosts : record'[g] \in [Peers(g) -> Held] /\ age'[g] \in [Peers(g) -> 0 .. Expiry]
    BY <1>0, <1>1, <1>7 DEF Restart, EmptyTable
  <2> QED BY <1>7, <2>1, <2>2 DEF Restart
<1>8. ASSUME NEW h \in Hosts, WorkerExits(h)
      PROVE  TableInv'
  BY <1>0, <1>8 DEF WorkerExits
<1>9. CASE UNCHANGED vars
  BY <1>9 DEF vars
<1> QED BY <1>2, <1>3, <1>4, <1>5, <1>6, <1>7, <1>8, <1>9 DEF Next

(* The counts and ages of every table stay in range.                       *)
THEOREM TableInvariant ==
  Spec => []TableInv
BY InitTable, NextTable, PTL DEF Spec

-----------------------------------------------------------------------------
(* split_account_total, from every host's own side: hosts whose tables     *)
(* agree with what runs derive shares that stay within any total.          *)
THEOREM SharesStayWithinTotal ==
  Spec => []SharesAddUp
<1>1. ASSUME TableInv, \A h \in Hosts : SeesAsIs(h), NEW total \in 0 .. Fleet.max_workers
      PROVE  SumOver([h \in Hosts |-> Split[total][SeenHosts(h)][FALSE][h]], Hosts) <= total
  <2> DEFINE seen == [g \in Hosts |-> HostEntry(workers[g], Ceiling[g], demand[g])]
             share == Split[total][seen][FALSE]
             own == [h \in Hosts |-> Split[total][SeenHosts(h)][FALSE][h]]
  <2>1. ASSUME NEW h \in Hosts
        PROVE  SeenHosts(h) = seen
    <3>1. \A p \in Peers(h) : /\ Contribution(h, p) = Published(p)
                              /\ record[h][p].kind = "same"
      BY <1>1 DEF SeesAsIs, Contribution, Published
    <3>2. {h} \cup Sharing(h) = Hosts
      BY <3>1 DEF Sharing, Peers
    <3> QED BY <3>1, <3>2 DEF SeenHosts, Published, Peers
  <2>2. seen \in [Hosts -> Entries]
    <3>1. \A h \in Hosts : workers[h] \in 0 .. Fleet.max_workers /\ demand[h] \in Demands
      BY <1>1 DEF TableInv
    <3> QED BY <3>1 DEF HostEntry, Entries
  <2>3. own = [h \in Hosts |-> share[h]]
    BY <2>1
  <2>4. Hosts \in SUBSET Hosts /\ Hosts # {} /\ FALSE \in BOOLEAN
    BY FederationAssumption
  <2>5. Shares(Hosts, seen, total, share)
    <3> HIDE DEF seen
    <3> QED BY <1>1, <2>2, <2>4, ShareBounds
  <2> HIDE DEF share, own
  <2>6. own = share
    BY <2>3, <2>5 DEF Shares
  <2> QED BY <2>5, <2>6 DEF Shares, own
<1>2. TableInv => SharesAddUp
  BY <1>1 DEF SharesAddUp
<1> QED BY <1>2, TableInvariant, PTL

(* No host launches a worker without ready work of its own, or passes its  *)
(* own ceiling, in any step.                                               *)
THEOREM GrowthNeedsWork ==
  Spec => NoIdleGrowth
<1>1. ASSUME TableInv, [Next]_vars, NEW h \in Hosts, workers'[h] > workers[h]
      PROVE  demand[h] > 0 /\ workers'[h] <= Ceiling[h]
  <2>1. workers[h] \in Nat
    BY <1>1, FederationAssumption DEF TableInv, Fleets
  <2>2. CASE workers' = workers
    BY <1>1, <2>1, <2>2
  <2>3. ASSUME NEW g \in Hosts, Decide(g)
        PROVE  demand[h] > 0 /\ workers'[h] <= Ceiling[h]
    <3>1. PICK n : MayBecome(g, n) /\ workers' = [workers EXCEPT ![g] = n]
      BY <1>1, <2>3, DecideMoves
    <3> QED BY <1>1, <2>1, <3>1 DEF MayBecome, TableInv
  <2>4. ASSUME NEW g \in Hosts, WorkerExits(g)
        PROVE  FALSE
    BY <1>1, <2>1, <2>4 DEF WorkerExits, TableInv
  <2> QED BY <1>1, <2>2, <2>3, <2>4
          DEF Next, vars, Tick, BecomeCalm, PullPeers, CycleFails, Restart
<1>2. TableInv /\ [Next]_vars =>
        [\A h \in Hosts : workers'[h] > workers[h] => demand[h] > 0 /\ workers'[h] <= Ceiling[h]]_vars
  BY <1>1
<1> QED BY <1>2, TableInvariant, PTL DEF Spec, NoIdleGrowth

-----------------------------------------------------------------------------
(* The refinement.  Viewed is the refinement mapping of Policy.            *)
Viewed == [h \in Hosts |-> [p \in Peers(h) |-> Freshness(h, p)]]

LEMMA ViewedAt ==
  ASSUME NEW h \in Hosts, NEW p \in Peers(h)
  PROVE  Viewed[h][p] = Freshness(h, p)
BY DEF Viewed

(* A tick is shorter than the time between stale and expired.              *)
LEMMA TicksApart ==
  /\ Expiry \in Nat /\ StaleAfter \in Nat /\ StaleAfter > 0 /\ Expiry > StaleAfter + 1
BY FederationAssumption

LEMMA InitRefines ==
  Init => Policy!Init
<1> SUFFICES ASSUME Init
             PROVE  Policy!Init
  OBVIOUS
<1>1. \A h \in Hosts : \A p \in Peers(h) : Freshness(h, p) = "stale"
  BY TicksApart DEF Init, Freshness, EmptyTable
<1>2. Viewed = [h \in Hosts |-> [p \in Peers(h) |-> "stale"]]
  BY <1>1 DEF Viewed
<1>3. workers \in [Hosts -> Nat]
  BY FederationAssumption DEF Init, Fleets
<1> QED BY <1>2, <1>3 DEF Policy!Init, Policy!Peers, Peers, Viewed

(* A step that leaves record and age alone leaves the view alone.          *)
LEMMA ViewKept ==
  ASSUME UNCHANGED <<record, age>>
  PROVE  Viewed' = Viewed
BY DEF Viewed, Freshness

LEMMA PullIsHeard ==
  ASSUME TableInv, NEW h \in Hosts, PullPeers(h)
  PROVE  \E answered \in SUBSET Peers(h) :
           /\ Viewed' = [Viewed EXCEPT ![h] = [p \in Peers(h) |->
                            IF p \in answered THEN "fresh" ELSE Viewed[h][p]]]
           /\ UNCHANGED workers
<1>1. PICK answered \in (IF calm THEN {Peers(h)} ELSE SUBSET Peers(h)) :
      \E kind \in [answered -> IF calm THEN {"same"} ELSE Kinds] : Pulls(h, answered, kind)
  BY Zenon DEF PullPeers, Pulls
<1>2. PICK kind \in [answered -> IF calm THEN {"same"} ELSE Kinds] : Pulls(h, answered, kind)
  BY <1>1
<1>3. answered \in SUBSET Peers(h)
  OBVIOUS
<1>4. \A p \in answered : kind[p] \in {"same", "other", "unmeasured"}
  BY FederationAssumption
<1>5. DOMAIN record = Hosts /\ DOMAIN age = Hosts
  BY DEF TableInv
<1>6. ASSUME NEW p \in answered
      PROVE  Freshness(h, p)' = "fresh"
  <2>1. age'[h][p] = 0
    BY <1>2, <1>3, <1>5 DEF Pulls
  <2>2. record'[h][p].kind # "none"
    BY <1>2, <1>3, <1>4, <1>5 DEF Pulls, Published, NoRecord
  <2>3. record'[h][p] # NoRecord
    BY <2>2 DEF NoRecord
  <2> QED BY <2>1, <2>3, TicksApart DEF Freshness
<1>7. ASSUME NEW p \in Peers(h) \ answered
      PROVE  Freshness(h, p)' = Freshness(h, p)
  <2>1. age'[h][p] = age[h][p] /\ record'[h][p] = record[h][p]
    BY <1>2, <1>5 DEF Pulls
  <2> QED BY <2>1 DEF Freshness
<1>8. ASSUME NEW g \in Hosts \ {h}, NEW p \in Peers(g)
      PROVE  Freshness(g, p)' = Freshness(g, p)
  <2>1. age'[g] = age[g] /\ record'[g] = record[g]
    BY <1>2, <1>5 DEF Pulls
  <2> QED BY <2>1 DEF Freshness
<1>9. Viewed' = [Viewed EXCEPT ![h] = [p \in Peers(h) |->
                   IF p \in answered THEN "fresh" ELSE Viewed[h][p]]]
  BY <1>3, <1>6, <1>7, <1>8 DEF Viewed
<1> QED BY <1>3, <1>9 DEF PullPeers

LEMMA RestartIsRestarts ==
  ASSUME TableInv, NEW h \in Hosts, Restart(h)
  PROVE  Viewed' = [Viewed EXCEPT ![h] = [p \in Peers(h) |-> "stale"]] /\ UNCHANGED workers
<1>1. ASSUME NEW p \in Peers(h)
      PROVE  Freshness(h, p)' = "stale"
  <2>1. age'[h][p] = 0 /\ record'[h][p] = NoRecord
    BY DEF Restart, TableInv, EmptyTable
  <2> QED BY <2>1, TicksApart DEF Freshness
<1>2. ASSUME NEW g \in Hosts \ {h}, NEW p \in Peers(g)
      PROVE  Freshness(g, p)' = Freshness(g, p)
  <2>1. age'[g] = age[g] /\ record'[g] = record[g]
    BY DEF Restart, TableInv
  <2> QED BY <2>1 DEF Freshness
<1> QED BY <1>1, <1>2 DEF Viewed, Restart

LEMMA TickIsAges ==
  ASSUME TableInv, Tick, NEW h \in Hosts, NEW p \in Peers(h)
  PROVE  Freshness(h, p)' \in {Freshness(h, p), IF Freshness(h, p) = "fresh" THEN "stale" ELSE "expired"}
<1>1. /\ age'[h][p] = Min2(age[h][p] + 1, Expiry) /\ record'[h][p] = record[h][p]
      /\ age[h][p] \in 0 .. Expiry
  BY DEF Tick, TableInv
<1>2. age[h][p] \in Nat /\ Expiry \in Nat /\ StaleAfter \in Nat /\ Expiry > StaleAfter + 1
  BY <1>1, TicksApart
<1>3. CASE age[h][p] = Expiry
  <2>1. age'[h][p] = Expiry
    BY <1>1, <1>2, <1>3 DEF Min2
  <2> QED BY <1>2, <1>3, <2>1 DEF Freshness
<1>4. CASE age[h][p] < Expiry
  <2>1. age'[h][p] = age[h][p] + 1
    BY <1>1, <1>2, <1>4 DEF Min2
  <2> QED BY <1>1, <1>2, <1>4, <2>1 DEF Freshness
<1> QED BY <1>1, <1>2, <1>3, <1>4

LEMMA NextRefines ==
  TableInv /\ TableInv' /\ [Next]_vars => [Policy!Next]_(Policy!policyVars)
<1> SUFFICES ASSUME TableInv, TableInv', [Next]_vars
             PROVE  [Policy!Next]_(Policy!policyVars)
  OBVIOUS
<1>1. workers \in [Hosts -> Nat] /\ workers' \in [Hosts -> Nat]
  BY FederationAssumption DEF TableInv, Fleets
<1>2. CASE Tick
  <2>1. ASSUME NEW h \in Hosts
        PROVE  /\ Viewed'[h] \in [Peers(h) -> {"fresh", "stale", "expired"}]
               /\ DOMAIN Viewed'[h] = Peers(h)
               /\ \A p \in Peers(h) :
                    Viewed'[h][p] \in {Viewed[h][p],
                                       IF Viewed[h][p] = "fresh" THEN "stale" ELSE "expired"}
    <3>1. \A p \in Peers(h) : Freshness(h, p)' \in {"fresh", "stale", "expired"}
      BY DEF Freshness
    <3>2. Viewed'[h] = [p \in Peers(h) |-> Freshness(h, p)']
      BY DEF Viewed
    <3>3. \A p \in Peers(h) : Viewed[h][p] = Freshness(h, p)
      BY ViewedAt
    <3> QED BY <1>2, <3>1, <3>2, <3>3, TickIsAges
  <2>2. Viewed' = [h \in Hosts |-> Viewed'[h]]
    BY DEF Viewed
  <2>3. Viewed' \in [Hosts -> UNION {[Peers(h) -> {"fresh", "stale", "expired"}] : h \in Hosts}]
    BY <2>1, <2>2
  <2>4. UNCHANGED workers
    BY <1>2 DEF Tick
  <2>5. Policy!Ages
    BY <2>1, <2>3, <2>4 DEF Policy!Ages, Policy!Peers, Policy!Later, Peers, Viewed
  <2> QED BY <2>5 DEF Policy!Next
<1>3. CASE BecomeCalm
  <2>1. Viewed' = Viewed /\ workers' = workers
    BY <1>3, ViewKept DEF BecomeCalm
  <2> QED BY <2>1 DEF Policy!policyVars, Viewed
<1>4. ASSUME NEW h \in Hosts, PullPeers(h)
      PROVE  Policy!Next
  <2>1. PICK answered \in SUBSET Peers(h) :
           /\ Viewed' = [Viewed EXCEPT ![h] = [p \in Peers(h) |->
                            IF p \in answered THEN "fresh" ELSE Viewed[h][p]]]
           /\ UNCHANGED workers
    BY <1>4, PullIsHeard
  <2>2. Policy!Heard(h, answered)
    BY <2>1 DEF Policy!Heard, Policy!Peers, Peers, Viewed
  <2>3. answered \in SUBSET Policy!Peers(h)
    BY DEF Policy!Peers, Peers
  <2> QED BY <2>2, <2>3 DEF Policy!Next
<1>5. ASSUME NEW h \in Hosts, Decide(h)
      PROVE  Policy!Next
  <2>1. PICK n : MayBecome(h, n) /\ workers' = [workers EXCEPT ![h] = n]
    BY <1>5, DecideMoves
  <2>2. workers'[h] > workers[h] => \A p \in Peers(h) : Viewed[h][p] # "stale"
    BY <1>1, <2>1 DEF MayBecome, AnyPeerStale, Viewed
  <2>3. Viewed' = Viewed
    BY <1>5, ViewKept DEF Decide
  <2>4. Policy!Scales(h)
    BY <1>1, <2>1, <2>2, <2>3 DEF Policy!Scales, Policy!Peers, Peers, Viewed
  <2> QED BY <2>4 DEF Policy!Next
<1>6. ASSUME NEW h \in Hosts, CycleFails(h)
      PROVE  UNCHANGED Policy!policyVars
  <2>1. Viewed' = Viewed /\ workers' = workers
    BY <1>6, ViewKept DEF CycleFails
  <2> QED BY <2>1 DEF Policy!policyVars, Viewed
<1>7. ASSUME NEW h \in Hosts, Restart(h)
      PROVE  Policy!Next
  <2>1. Policy!Restarts(h)
    BY <1>7, RestartIsRestarts DEF Policy!Restarts, Policy!Peers, Peers, Viewed
  <2> QED BY <2>1 DEF Policy!Next
<1>8. ASSUME NEW h \in Hosts, WorkerExits(h)
      PROVE  Policy!Next
  <2>1. workers' = [workers EXCEPT ![h] = @ - 1] /\ UNCHANGED <<record, age>>
    BY <1>8 DEF WorkerExits
  <2>2. ~(workers'[h] > workers[h])
    BY <1>1, <2>1
  <2>3. Viewed' = Viewed
    BY <2>1, ViewKept
  <2>4. Policy!Scales(h)
    BY <1>1, <2>1, <2>2, <2>3 DEF Policy!Scales, Policy!Peers, Viewed
  <2> QED BY <2>4 DEF Policy!Next
<1>9. CASE UNCHANGED vars
  <2>1. Viewed' = Viewed /\ workers' = workers
    BY <1>9, ViewKept DEF vars
  <2> QED BY <2>1 DEF Policy!policyVars, Viewed
<1> QED BY <1>2, <1>3, <1>4, <1>5, <1>6, <1>7, <1>8, <1>9 DEF Next

(* Federation implements PeerPolicy: whatever is lost, late, out of order  *)
(* or restarted, a peer passes through the frozen state before it stops    *)
(* counting, and no host grows while a peer of it is stale (plan 28.7).    *)
THEOREM FederationImplementsPolicy ==
  Spec => ImplementsPolicy
<1>1. Spec => Init /\ [][Next]_vars
  BY PTL DEF Spec
<1>2. Spec => Policy!Init
  BY <1>1, InitRefines, PTL
<1>3. Spec => [][Policy!Next]_(Policy!policyVars)
  BY <1>1, TableInvariant, NextRefines, PTL
<1> QED BY <1>2, <1>3, PTL DEF ImplementsPolicy, Policy!Spec
=============================================================================
