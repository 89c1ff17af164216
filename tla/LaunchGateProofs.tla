-------------------------- MODULE LaunchGateProofs --------------------------
(***************************************************************************)
(* Type correctness of LaunchGate and PublishedCoversRunning, for any set  *)
(* of hosts, any fleet and any combination of the faults, and the bound    *)
(* OvershootByPeerSteps as long as no cycle fails.                         *)
(*                                                                         *)
(* PublishedCoversRunning is not inductive: whether a count and a          *)
(* reservation cover the workers after a launch depends on what the        *)
(* governor observed before it published the reservation.  HostInv says,   *)
(* for every place in a cycle, how the real workers, the observation, the  *)
(* target, the status file and the reservation are related.                *)
(*                                                                         *)
(* The bound compares the workers of all hosts, which start at different   *)
(* times, with a total that one gate added up.  Decided names that gate.   *)
(***************************************************************************)
EXTENDS LaunchGate, CountLemmas

Published(h, n) == status[h] # Unknown => n <= status[h] + pending[h].count

(* A reservation covers the workers above the count it was made at.        *)
Reserved(h, n) == pending[h].count > 0 => n <= pending[h].baseline + pending[h].count

SeenAll(h) ==
  observed[h] =>
    pending[h].count > 0 /\ pending[h].baseline + pending[h].count <= seen[h]

AtGate(h) ==
  pc[h] \in {"gate", "repull"} =>
    /\ running[h] <= seen[h] /\ seen[h] < desired[h]
    /\ status[h] # Unknown => seen[h] <= status[h]
    /\ pc[h] = "gate" => pending[h].count = 0
    /\ pc[h] = "repull" => pending[h].baseline = seen[h]
    /\ ~observed[h]

AtActuate(h) ==
  pc[h] = "actuate" =>
    /\ running[h] <= seen[h] + pending[h].count
    /\ desired[h] <= seen[h] + pending[h].count
    /\ Published(h, desired[h])
    /\ Reserved(h, desired[h])
    /\ SeenAll(h)

AtReport(h) ==
  pc[h] = "report" => running[h] <= seen[h] + pending[h].count /\ SeenAll(h)

AtClear(h) ==
  pc[h] = "clear" /\ status[h] # Unknown => running[h] <= status[h]

(* A re-pulled reservation comes with the count read before it.            *)
ReadInOrder(h) ==
  \A p \in Peers(h) : repull[h][p].pending # Unknown => repull[h][p].workers # Unknown

HostInv(h) ==
  /\ Published(h, running[h])
  /\ Reserved(h, running[h])
  /\ AtGate(h)
  /\ AtActuate(h)
  /\ AtReport(h)
  /\ AtClear(h)
  /\ ReadInOrder(h)

IInv == TypeOK /\ \A h \in Hosts : HostInv(h)

USE DEF Goto, NoPending, NotRead, Count

-----------------------------------------------------------------------------
LEMMA InitInv == Init => IInv
<1> SUFFICES ASSUME Init PROVE IInv
  OBVIOUS
<1>1. Fleet.max_workers \in Nat
  BY FleetAssumption, FleetFields
<1>2. TypeOK
  BY <1>1 DEF Init, TypeOK
<1>3. \A h \in Hosts : HostInv(h)
  BY <1>1 DEF Init, HostInv, Published, Reserved, SeenAll, AtGate, AtActuate, AtReport, AtClear, ReadInOrder
<1> QED BY <1>2, <1>3 DEF IInv

(* The burn denominator of a cycle is a natural number.                    *)
LEMMA DenominatorNat ==
  ASSUME TypeOK, NEW h \in Hosts, NEW workers \in Nat
  PROVE  Denominator(h, workers) \in Nat
<1> DEFINE S == {p \in Peers(h) : age[h][p] # "expired" /\ view[h][p] # Unknown}
<1>1. IsFiniteSet(S)
  BY HostsFinite, FS_Subset DEF Peers
<1>2. \A p \in S : view[h][p] \in Nat
  BY DEF TypeOK
<1>3. SumOver(view[h], S) \in Nat
  BY <1>1, <1>2, SumOverNat
<1> QED BY <1>3 DEF Denominator

(* What the re-pull found committed by the peers is a natural number.      *)
LEMMA CommittedNat ==
  ASSUME TypeOK, NEW h \in Hosts, ReadInOrder(h)
  PROVE  PeersCommitted(h) \in Nat
<1> DEFINE f == [p \in Peers(h) |-> repull[h][p].workers + repull[h][p].pending]
<1>1. IsFiniteSet(Answered(h))
  BY HostsFinite, FS_Subset DEF Answered, Peers
<1>2. \A p \in Answered(h) : f[p] \in Nat
  BY DEF TypeOK, Answered, ReadInOrder
<1> HIDE DEF f
<1>3. SumOver(f, Answered(h)) \in Nat
  BY <1>1, <1>2, SumOverNat
<1> QED BY <1>3 DEF PeersCommitted, f

LEMMA GovernedNat ==
  ASSUME TypeOK, NEW p \in Hosts
  PROVE  GovernedWorkers(p) \in Nat
BY DEF TypeOK, GovernedWorkers

LEMMA WantNat ==
  ASSUME TypeOK, NEW h \in Hosts, seen[h] < desired[h]
  PROVE  Want(h) \in Nat
BY StepUpAssumption DEF TypeOK, Want, Min2

LEMMA PermittedNat ==
  ASSUME TypeOK, NEW h \in Hosts, ReadInOrder(h), seen[h] < desired[h]
  PROVE  Permitted(h) \in Nat
BY CommittedNat, WantNat, SaturatingSubNat, MinMaxNat DEF TypeOK, Permitted

(* An observation counts running workers, and misses no more than the      *)
(* reservation stands for.                                                 *)
LEMMA ObservableRange ==
  ASSUME TypeOK, NEW h \in Hosts, NEW workers \in Observable(h)
  PROVE  /\ workers \in Nat
         /\ workers <= running[h]
         /\ running[h] <= workers + pending[h].count
BY DEF TypeOK, Observable, SaturatingSub

LEMMA ShareNat ==
  ASSUME NEW workers \in Nat, NEW denominator \in Nat, NEW newTotal \in Nat,
         NEW share \in Shares(workers, denominator, newTotal)
  PROVE  share \in Nat
BY DEF Shares

-----------------------------------------------------------------------------
(* One lemma per action that moves the protocol forward.                   *)
LEMMA PullPeersInv ==
  ASSUME IInv, NEW h \in Hosts, PullPeers(h)
  PROVE  IInv'
<1> USE DEF PullPeers, protocolVars, localVars
<1>1. \A p \in Peers(h) : GovernedWorkers(p) \in Count
  BY GovernedNat DEF IInv, Peers
<1>2. PICK answered \in SUBSET Peers(h) :
       /\ view' = [view EXCEPT ![h] =
                     [p \in Peers(h) |-> IF p \in answered THEN GovernedWorkers(p)
                                                           ELSE view[h][p]]]
       /\ age' = [age EXCEPT ![h] =
                    [p \in Peers(h) |-> IF p \in answered THEN "fresh" ELSE age[h][p]]]
  OBVIOUS
<1>3. /\ DOMAIN view' = Hosts /\ DOMAIN age' = Hosts
      /\ \A k \in Hosts : /\ view'[k] \in [Peers(k) -> Count]
                          /\ age'[k] \in [Peers(k) -> {"fresh", "stale", "expired"}]
  BY <1>1, <1>2 DEF IInv, TypeOK
<1>4. TypeOK'
  BY <1>3 DEF IInv, TypeOK
<1>5. \A k \in Hosts : HostInv(k)'
  BY DEF IInv, TypeOK, HostInv, Published, Reserved, SeenAll, AtGate, AtActuate, AtReport, AtClear, ReadInOrder
<1> QED BY <1>4, <1>5 DEF IInv

(* What a decision comes to: a target above the count, for the gate, or    *)
(* one that launches nothing.                                              *)
LEMMA DecideEffect ==
  ASSUME TypeOK, NEW h \in Hosts, Decide(h)
  PROVE  \E workers \in Observable(h), raw \in RawTargets, hold \in BOOLEAN,
            target \in Nat, gated \in BOOLEAN, noLaunch \in Nat :
        /\ gated => target > workers /\ pending[h].count = 0
        /\ noLaunch <= workers
        /\ seen' = [seen EXCEPT ![h] = workers]
        /\ observed' = [observed EXCEPT ![h] = PendingObserved(h, workers)]
        /\ total' = [total EXCEPT ![h] = ApplyStepLimits(raw, Denominator(h, workers), Fleet)]
        /\ desired' = [desired EXCEPT ![h] = IF gated THEN target ELSE noLaunch]
        /\ expired' = [expired EXCEPT ![h] = {p \in Peers(h) : age[h][p] = "expired"}]
        /\ Goto(h, IF gated THEN "gate" ELSE IF hold THEN "report" ELSE "actuate")
<1>1. PICK workers \in Observable(h), raw \in RawTargets, hold \in BOOLEAN :
        LET denominator == Denominator(h, workers)
            newTotal == ApplyStepLimits(raw, denominator, Fleet)
            stalePeer == \E p \in Peers(h) : age[h][p] = "stale"
        IN \E share \in Shares(workers, denominator, newTotal) :
            LET target == IF hold THEN workers
                          ELSE IF stalePeer THEN Min2(share, workers) ELSE share
                gated == target > workers /\ ~stalePeer /\ pending[h].count = 0
            IN /\ seen' = [seen EXCEPT ![h] = workers]
               /\ observed' = [observed EXCEPT ![h] = PendingObserved(h, workers)]
               /\ total' = [total EXCEPT ![h] = newTotal]
               /\ desired' = [desired EXCEPT ![h] =
                                IF gated THEN target ELSE Min2(target, workers)]
               /\ expired' = [expired EXCEPT ![h] = {p \in Peers(h) : age[h][p] = "expired"}]
               /\ Goto(h, IF gated THEN "gate" ELSE IF hold THEN "report" ELSE "actuate")
  BY DEF Decide
<1> DEFINE newTotal == ApplyStepLimits(raw, Denominator(h, workers), Fleet)
           stalePeer == \E p \in Peers(h) : age[h][p] = "stale"
<1>2. /\ workers \in Nat
      /\ workers <= running[h]
      /\ running[h] <= workers + pending[h].count
  BY ObservableRange
<1>3. newTotal \in Nat
  BY <1>2, DenominatorNat, StepLimitsNat, FleetAssumption, RawAssumption
<1> HIDE DEF newTotal
<1>4. PICK target \in Nat, gated \in BOOLEAN, noLaunch \in Nat :
        /\ gated => target > workers /\ pending[h].count = 0
        /\ noLaunch <= workers
        /\ seen' = [seen EXCEPT ![h] = workers]
        /\ observed' = [observed EXCEPT ![h] = PendingObserved(h, workers)]
        /\ total' = [total EXCEPT ![h] = newTotal]
        /\ desired' = [desired EXCEPT ![h] = IF gated THEN target ELSE noLaunch]
        /\ expired' = [expired EXCEPT ![h] = {p \in Peers(h) : age[h][p] = "expired"}]
        /\ Goto(h, IF gated THEN "gate" ELSE IF hold THEN "report" ELSE "actuate")
  <2>1. PICK share \in Shares(workers, Denominator(h, workers), newTotal) :
          LET target == IF hold THEN workers
                        ELSE IF stalePeer THEN Min2(share, workers) ELSE share
              gated == target > workers /\ ~stalePeer /\ pending[h].count = 0
          IN /\ seen' = [seen EXCEPT ![h] = workers]
             /\ observed' = [observed EXCEPT ![h] = PendingObserved(h, workers)]
             /\ total' = [total EXCEPT ![h] = newTotal]
             /\ desired' = [desired EXCEPT ![h] =
                              IF gated THEN target ELSE Min2(target, workers)]
             /\ expired' = [expired EXCEPT ![h] = {p \in Peers(h) : age[h][p] = "expired"}]
             /\ Goto(h, IF gated THEN "gate" ELSE IF hold THEN "report" ELSE "actuate")
    BY <1>1, Zenon DEF newTotal
  <2>2. share \in Nat
    BY <1>2, <1>3, ShareNat, DenominatorNat
  <2> DEFINE target == IF hold THEN workers
                       ELSE IF stalePeer THEN Min2(share, workers) ELSE share
             gated == target > workers /\ ~stalePeer /\ pending[h].count = 0
             noLaunch == Min2(target, workers)
  <2> HIDE DEF stalePeer
  <2>3. target \in Nat
    BY <1>2, <2>2, MinMaxNat
  <2> HIDE DEF target
  <2>4. noLaunch \in Nat /\ noLaunch <= workers
    BY <1>2, <2>3, MinMaxNat
  <2>5. gated \in BOOLEAN /\ (gated => target > workers /\ pending[h].count = 0)
    OBVIOUS
  <2>6. /\ seen' = [seen EXCEPT ![h] = workers]
        /\ observed' = [observed EXCEPT ![h] = PendingObserved(h, workers)]
        /\ total' = [total EXCEPT ![h] = newTotal]
        /\ desired' = [desired EXCEPT ![h] = IF gated THEN target ELSE noLaunch]
        /\ expired' = [expired EXCEPT ![h] = {p \in Peers(h) : age[h][p] = "expired"}]
        /\ Goto(h, IF gated THEN "gate" ELSE IF hold THEN "report" ELSE "actuate")
    BY <2>1 DEF target
  <2> HIDE DEF gated, noLaunch
  <2> QED BY <2>3, <2>4, <2>5, <2>6
<1> QED BY <1>1, <1>4 DEF newTotal

LEMMA DecideInv ==
  ASSUME IInv, NEW h \in Hosts, Decide(h)
  PROVE  IInv'
<1>1. PICK workers \in Observable(h), raw \in RawTargets, hold \in BOOLEAN,
           target \in Nat, gated \in BOOLEAN, noLaunch \in Nat :
        /\ gated => target > workers /\ pending[h].count = 0
        /\ noLaunch <= workers
        /\ seen' = [seen EXCEPT ![h] = workers]
        /\ observed' = [observed EXCEPT ![h] = PendingObserved(h, workers)]
        /\ total' = [total EXCEPT ![h] = ApplyStepLimits(raw, Denominator(h, workers), Fleet)]
        /\ desired' = [desired EXCEPT ![h] = IF gated THEN target ELSE noLaunch]
        /\ expired' = [expired EXCEPT ![h] = {p \in Peers(h) : age[h][p] = "expired"}]
        /\ Goto(h, IF gated THEN "gate" ELSE IF hold THEN "report" ELSE "actuate")
  BY DecideEffect DEF IInv
<1> DEFINE newTotal == ApplyStepLimits(raw, Denominator(h, workers), Fleet)
<1>2. /\ workers \in Nat
      /\ workers <= running[h]
      /\ running[h] <= workers + pending[h].count
  BY ObservableRange DEF IInv
<1>3. newTotal \in Nat
  BY <1>2, DenominatorNat, StepLimitsNat, FleetAssumption, RawAssumption DEF IInv
<1>4. /\ gated => target > workers /\ pending[h].count = 0
      /\ noLaunch <= workers
      /\ seen' = [seen EXCEPT ![h] = workers]
      /\ observed' = [observed EXCEPT ![h] = PendingObserved(h, workers)]
      /\ total' = [total EXCEPT ![h] = newTotal]
      /\ desired' = [desired EXCEPT ![h] = IF gated THEN target ELSE noLaunch]
      /\ expired' = [expired EXCEPT ![h] = {p \in Peers(h) : age[h][p] = "expired"}]
      /\ pc' = [pc EXCEPT ![h] = IF gated THEN "gate" ELSE IF hold THEN "report" ELSE "actuate"]
  BY <1>1
<1> HIDE DEF newTotal
<1>5. UNCHANGED <<running, status, pending, view, age, repull>> /\ pc[h] = "pulled"
  BY DEF Decide, protocolVars, peerVars
<1>6. TypeOK'
  BY <1>2, <1>3, <1>4, <1>5 DEF IInv, TypeOK, PendingObserved, Peers
<1>7. \A k \in Hosts : HostInv(k)'
  <2>1. ASSUME NEW k \in Hosts, k # h PROVE HostInv(k)'
    BY <1>4, <1>5, <2>1 DEF IInv, TypeOK, HostInv, Published, Reserved, SeenAll, AtGate, AtActuate, AtReport, AtClear, ReadInOrder
  <2>2. /\ seen'[h] = workers /\ observed'[h] = PendingObserved(h, workers)
        /\ desired'[h] = IF gated THEN target ELSE noLaunch
        /\ pc'[h] = IF gated THEN "gate" ELSE IF hold THEN "report" ELSE "actuate"
    BY <1>4 DEF IInv, TypeOK
  <2>3. /\ running[h] \in Nat /\ pending[h].count \in Nat /\ pending[h].baseline \in Nat
        /\ status[h] # Unknown => status[h] \in Nat
    BY DEF IInv, TypeOK
  <2>4. Published(h, running[h])' /\ Reserved(h, running[h])' /\ ReadInOrder(h)' /\ AtClear(h)'
    BY <1>5, <2>2 DEF IInv, HostInv, Published, Reserved, SeenAll, AtGate, AtActuate, AtReport, AtClear, ReadInOrder
  <2>5. SeenAll(h)'
    BY <1>5, <2>2 DEF SeenAll, PendingObserved
  <2>6. AtGate(h)'
    <3> SUFFICES ASSUME gated PROVE AtGate(h)'
      BY <2>2 DEF AtGate
    <3>1. target > workers /\ pending[h].count = 0 /\ pc'[h] = "gate" /\ desired'[h] = target
      BY <1>4, <2>2
    <3>2. ~observed'[h]
      BY <1>5, <2>5, <3>1 DEF SeenAll
    <3>3. running[h] <= workers /\ (status[h] # Unknown => workers <= status[h])
      BY <1>2, <2>3, <3>1 DEF IInv, HostInv, Published
    <3> QED BY <1>5, <2>2, <3>1, <3>2, <3>3 DEF AtGate
  <2>7. AtActuate(h)'
    BY <1>2, <1>4, <1>5, <2>2, <2>3, <2>5 DEF IInv, HostInv, AtActuate, Published, Reserved
  <2>8. AtReport(h)'
    BY <1>2, <1>5, <2>2, <2>3, <2>5 DEF AtReport
  <2> QED BY <2>1, <2>4, <2>6, <2>7, <2>8 DEF HostInv
<1> QED BY <1>6, <1>7 DEF IInv

LEMMA GatePublishInv ==
  ASSUME IInv, NEW h \in Hosts, GatePublish(h)
  PROVE  IInv'
<1> USE DEF GatePublish, localVars, peerVars
<1>1. seen[h] < desired[h]
  BY DEF IInv, HostInv, AtGate
<1>2. Want(h) \in Nat
  BY <1>1, WantNat DEF IInv
<1>3. TypeOK'
  BY <1>2 DEF IInv, TypeOK
<1>4. \A k \in Hosts : HostInv(k)'
  BY <1>2 DEF IInv, TypeOK, HostInv, Published, Reserved, SeenAll, AtGate, AtActuate, AtReport, AtClear, ReadInOrder
<1> QED BY <1>3, <1>4 DEF IInv

LEMMA RepullInv ==
  ASSUME IInv, NEW h \in Hosts, NEW p \in Peers(h), RepullStatus(h, p) \/ RepullPending(h, p)
  PROVE  IInv'
<1> USE DEF RepullStatus, RepullPending, protocolVars, peerVars
<1>1. GovernedWorkers(p) \in Nat /\ pending[p].count \in Nat
  BY GovernedNat DEF IInv, Peers, TypeOK
<1>2. PICK r \in [workers : Count, pending : Count] :
        /\ r.pending # Unknown => r.workers # Unknown
        /\ repull' = [repull EXCEPT ![h][p] = r]
  <2>0. repull[h][p] \in [workers : Count, pending : Count]
    BY DEF IInv, TypeOK
  <2>1. CASE RepullStatus(h, p)
    <3> DEFINE r == [repull[h][p] EXCEPT !.workers = GovernedWorkers(p)]
    <3>1. r \in [workers : Count, pending : Count] /\ r.pending = Unknown
      BY <1>1, <2>0, <2>1
    <3>2. repull' = [repull EXCEPT ![h][p] = r]
      BY <2>1
    <3> HIDE DEF r
    <3> QED BY <3>1, <3>2
  <2>2. CASE RepullPending(h, p)
    <3> DEFINE r == [repull[h][p] EXCEPT !.pending = pending[p].count]
    <3>1. r \in [workers : Count, pending : Count] /\ r.workers # Unknown
      BY <1>1, <2>0, <2>2
    <3>2. repull' = [repull EXCEPT ![h][p] = r]
      BY <2>2
    <3> HIDE DEF r
    <3> QED BY <3>1, <3>2
  <2> QED BY <2>1, <2>2
<1>3. /\ DOMAIN repull' = Hosts
      /\ \A k \in Hosts : repull'[k] \in [Peers(k) -> [workers : Count, pending : Count]]
  BY <1>2 DEF IInv, TypeOK
<1>4. TypeOK'
  BY <1>3 DEF IInv, TypeOK
<1>5. \A k \in Hosts : ReadInOrder(k)'
  BY <1>2 DEF IInv, TypeOK, HostInv, ReadInOrder
<1>6. \A k \in Hosts : HostInv(k)'
  BY <1>5 DEF IInv, HostInv, Published, Reserved, SeenAll, AtGate, AtActuate, AtReport, AtClear
<1> QED BY <1>4, <1>6 DEF IInv

LEMMA GateCommitInv ==
  ASSUME IInv, NEW h \in Hosts, GateCommit(h)
  PROVE  IInv'
<1> USE DEF GateCommit, peerVars
<1>1. Permitted(h) \in Nat
  BY PermittedNat DEF IInv, HostInv, AtGate
<1>2. TypeOK'
  BY <1>1 DEF IInv, TypeOK
<1>3. \A k \in Hosts : HostInv(k)'
  BY <1>1 DEF IInv, TypeOK, HostInv, Published, Reserved, SeenAll, AtGate, AtActuate, AtReport, AtClear, ReadInOrder
<1> QED BY <1>2, <1>3 DEF IInv

LEMMA GateFailsInv ==
  ASSUME IInv, NEW h \in Hosts, GateFails(h)
  PROVE  IInv'
<1> USE DEF GateFails, peerVars, localVars
<1>1. TypeOK'
  BY DEF IInv, TypeOK
<1>2. \A k \in Hosts : HostInv(k)'
  BY DEF IInv, TypeOK, HostInv, Published, Reserved, SeenAll, AtGate, AtActuate, AtReport, AtClear, ReadInOrder
<1> QED BY <1>1, <1>2 DEF IInv

(* Whatever the actuator reaches, it is not above both the workers there   *)
(* were and the target.                                                    *)
LEMMA ActuatedBound ==
  ASSUME IInv, NEW h \in Hosts, Actuate(h) \/ ActuationFails(h)
  PROVE  \E n \in Nat :
           /\ n <= running[h] \/ n <= desired[h]
           /\ running' = [running EXCEPT ![h] = n]
<1> USE DEF IInv, TypeOK
<1>1. CASE Actuate(h)
  <2>1. PICK reached \in {desired[h]} \cup
                    (IF "short" \in Faults THEN running[h] .. desired[h] ELSE {}) :
          running' = [running EXCEPT ![h] = IF desired[h] = seen[h] THEN @ ELSE reached]
    BY <1>1 DEF Actuate
  <2>2. reached \in Nat /\ reached <= desired[h]
    BY <2>1
  <2>3. CASE desired[h] = seen[h]
    <3>1. running' = [running EXCEPT ![h] = running[h]] /\ running[h] \in Nat
      BY <2>1, <2>3
    <3>2. running[h] <= running[h]
      BY <3>1
    <3> QED BY <3>1, <3>2
  <2>4. CASE desired[h] # seen[h]
    BY <2>1, <2>2, <2>4
  <2> QED BY <2>3, <2>4
<1>2. CASE ActuationFails(h)
  <2>1. PICK reached \in Min2(running[h], desired[h]) .. Max2(running[h], desired[h]) :
          running' = [running EXCEPT ![h] = reached]
    BY <1>2 DEF ActuationFails
  <2>2. reached \in Nat /\ (reached <= running[h] \/ reached <= desired[h])
    BY <2>1 DEF Min2, Max2
  <2> QED BY <2>1, <2>2
<1> QED BY <1>1, <1>2

LEMMA ActuateInv ==
  ASSUME IInv, NEW h \in Hosts, Actuate(h) \/ ActuationFails(h)
  PROVE  IInv'
<1>1. PICK n \in Nat :
           /\ n <= running[h] \/ n <= desired[h]
           /\ running' = [running EXCEPT ![h] = n]
  BY ActuatedBound
<1>2. /\ pc[h] = "actuate"
      /\ pc' = [pc EXCEPT ![h] = "report"] \/ pc' = [pc EXCEPT ![h] = "failed"]
      /\ UNCHANGED <<status, pending, localVars, peerVars>>
  BY DEF Actuate, ActuationFails
<1>3. TypeOK'
  BY <1>1, <1>2 DEF IInv, TypeOK, localVars, peerVars
<1>4. \A k \in Hosts : HostInv(k)'
  BY <1>1, <1>2 DEF IInv, TypeOK, localVars, peerVars, HostInv, Published, Reserved, SeenAll, AtGate, AtActuate, AtReport, AtClear, ReadInOrder
<1> QED BY <1>3, <1>4 DEF IInv

(* Ending a cycle keeps every host's invariant, as long as the count and   *)
(* the reservation left behind cover the workers.                          *)
LEMMA EndCycleInv ==
  ASSUME IInv, NEW h \in Hosts, EndCycle(h),
         running' = running,
         status' \in [Hosts -> Count],
         pending' \in [Hosts -> [count : Nat, baseline : Nat]],
         \A k \in Hosts \ {h} : status'[k] = status[k] /\ pending'[k] = pending[k],
         Published(h, running[h])', Reserved(h, running[h])',
         DOMAIN view' = Hosts, DOMAIN age' = Hosts,
         \A k \in Hosts : /\ view'[k] \in [Peers(k) -> Count]
                          /\ age'[k] \in [Peers(k) -> {"fresh", "stale", "expired"}]
  PROVE  IInv'
<1>1. TypeOK'
  BY DEF IInv, TypeOK, EndCycle
<1>2. ASSUME NEW k \in Hosts, k # h PROVE HostInv(k)'
  BY <1>2 DEF IInv, TypeOK, EndCycle, HostInv, Published, Reserved, SeenAll, AtGate, AtActuate, AtReport, AtClear, ReadInOrder
<1>3. HostInv(h)'
  BY DEF IInv, TypeOK, EndCycle, HostInv, Published, Reserved, SeenAll, AtGate, AtActuate, AtReport, AtClear, ReadInOrder
<1> QED BY <1>1, <1>2, <1>3 DEF IInv

LEMMA WriteStatusInv ==
  ASSUME IInv, NEW h \in Hosts, WriteStatus(h)
  PROVE  IInv'
<1> USE DEF WriteStatus, peerVars
<1>1. CASE observed[h]
  <2>1. TypeOK'
    BY <1>1 DEF IInv, TypeOK, localVars
  <2>2. \A k \in Hosts : HostInv(k)'
    BY <1>1 DEF IInv, TypeOK, localVars, HostInv, Published, Reserved, SeenAll, AtGate, AtActuate, AtReport, AtClear, ReadInOrder
  <2> QED BY <2>1, <2>2 DEF IInv
<1>2. CASE ~observed[h]
  <2>1. EndCycle(h)
    BY <1>2
  <2>2. status' \in [Hosts -> Count] /\ \A k \in Hosts \ {h} : status'[k] = status[k]
    BY DEF IInv, TypeOK
  <2>3. Published(h, running[h])' /\ Reserved(h, running[h])'
    BY DEF IInv, TypeOK, HostInv, AtReport, Published, Reserved
  <2> QED BY <2>1, <2>2, <2>3, EndCycleInv DEF IInv, TypeOK
<1> QED BY <1>1, <1>2

LEMMA ClearPendingInv ==
  ASSUME IInv, NEW h \in Hosts, ClearPending(h)
  PROVE  IInv'
<1> USE DEF ClearPending, peerVars
<1>1. /\ pending' \in [Hosts -> [count : Nat, baseline : Nat]]
      /\ \A k \in Hosts \ {h} : pending'[k] = pending[k]
  BY DEF IInv, TypeOK
<1>2. Published(h, running[h])' /\ Reserved(h, running[h])'
  BY DEF IInv, TypeOK, HostInv, AtClear, Published, Reserved
<1> QED BY <1>1, <1>2, EndCycleInv DEF IInv, TypeOK

LEMMA WriteFailureInv ==
  ASSUME IInv, NEW h \in Hosts, WriteFailure(h)
  PROVE  IInv'
<1> USE DEF WriteFailure, peerVars
<1>1. status' \in [Hosts -> Count] /\ \A k \in Hosts \ {h} : status'[k] = status[k]
  BY DEF IInv, TypeOK
<1>2. Published(h, running[h])' /\ Reserved(h, running[h])'
  BY DEF IInv, TypeOK, HostInv, Published, Reserved
<1> QED BY <1>1, <1>2, EndCycleInv DEF IInv, TypeOK

LEMMA StatusWriteFailsInv ==
  ASSUME IInv, NEW h \in Hosts, StatusWriteFails(h)
  PROVE  IInv'
<1>1. UNCHANGED <<running, status, pending, view, age>> /\ EndCycle(h)
  BY DEF StatusWriteFails, peerVars, protocolVars
<1>2. Published(h, running[h])' /\ Reserved(h, running[h])'
  BY <1>1 DEF IInv, HostInv, Published, Reserved
<1> QED BY <1>1, <1>2, EndCycleInv DEF IInv, TypeOK

LEMMA CrashInv ==
  ASSUME IInv, NEW h \in Hosts, Crash(h)
  PROVE  IInv'
<1>1. UNCHANGED <<running, status, pending>> /\ EndCycle(h)
  BY DEF Crash, protocolVars
<1>2. Published(h, running[h])' /\ Reserved(h, running[h])'
  BY <1>1 DEF IInv, HostInv, Published, Reserved
<1>3. /\ DOMAIN view' = Hosts /\ DOMAIN age' = Hosts
      /\ \A k \in Hosts : /\ view'[k] \in [Peers(k) -> Count]
                          /\ age'[k] \in [Peers(k) -> {"fresh", "stale", "expired"}]
  BY DEF IInv, TypeOK, Crash
<1> QED BY <1>1, <1>2, <1>3, EndCycleInv DEF IInv, TypeOK

LEMMA ObservationFailsInv ==
  ASSUME IInv, NEW h \in Hosts, ObservationFails(h)
  PROVE  IInv'
<1> USE DEF ObservationFails, protocolVars, localVars, peerVars
<1>1. TypeOK'
  BY DEF IInv, TypeOK
<1>2. \A k \in Hosts : HostInv(k)'
  BY DEF IInv, TypeOK, HostInv, Published, Reserved, SeenAll, AtGate, AtActuate, AtReport, AtClear, ReadInOrder
<1> QED BY <1>1, <1>2 DEF IInv

LEMMA WorkerExitsInv ==
  ASSUME IInv, NEW h \in Hosts, WorkerExits(h)
  PROVE  IInv'
<1> USE DEF WorkerExits, localVars, peerVars
<1>1. TypeOK'
  BY DEF IInv, TypeOK
<1>2. \A k \in Hosts : HostInv(k)'
  BY DEF IInv, TypeOK, HostInv, Published, Reserved, SeenAll, AtGate, AtActuate, AtReport, AtClear, ReadInOrder
<1> QED BY <1>1, <1>2 DEF IInv

LEMMA AgingInv ==
  ASSUME IInv, NEW h \in Hosts, NEW p \in Peers(h), Aging(h, p)
  PROVE  IInv'
<1> USE DEF Aging, protocolVars, localVars
<1>1. PICK a \in {"stale", "expired"} : age' = [age EXCEPT ![h][p] = a]
  OBVIOUS
<1>2. /\ DOMAIN age' = Hosts
      /\ \A k \in Hosts : age'[k] \in [Peers(k) -> {"fresh", "stale", "expired"}]
  BY <1>1 DEF IInv, TypeOK
<1>3. TypeOK'
  BY <1>2 DEF IInv, TypeOK
<1>4. \A k \in Hosts : HostInv(k)'
  BY DEF IInv, HostInv, Published, Reserved, SeenAll, AtGate, AtActuate, AtReport, AtClear, ReadInOrder
<1> QED BY <1>3, <1>4 DEF IInv

LEMMA StutterInv == IInv /\ UNCHANGED vars => IInv'
BY DEF IInv, TypeOK, vars, HostInv, Published, Reserved, SeenAll, AtGate, AtActuate, AtReport, AtClear, ReadInOrder

-----------------------------------------------------------------------------
LEMMA NextInv == IInv /\ [Next]_vars => IInv'
<1> SUFFICES ASSUME IInv, Next PROVE IInv'
  BY StutterInv
<1>1. PICK h \in Hosts : Cycle(h) \/ Fault(h)
  BY DEF Next
<1>2. CASE Cycle(h)
  BY <1>2, PullPeersInv, DecideInv, GatePublishInv, RepullInv, GateCommitInv, ActuateInv,
     WriteStatusInv, ClearPendingInv, WriteFailureInv DEF Cycle
<1>3. CASE Fault(h)
  BY <1>3, ObservationFailsInv, GateFailsInv, ActuateInv, StatusWriteFailsInv,
     WorkerExitsInv, CrashInv, AgingInv DEF Fault
<1> QED BY <1>1, <1>2, <1>3

(* The inductive invariant holds in every reachable state.                 *)
THEOREM InvariantHolds == Spec => []IInv
BY InitInv, NextInv, PTL DEF Spec

(* Types: in particular the saturating arithmetic of the gate never leaves *)
(* the naturals, whatever was pulled, for any number of hosts.             *)
THEOREM TypeCorrect == Spec => []TypeOK
<1>1. IInv => TypeOK
  BY DEF IInv
<1> QED BY <1>1, InvariantHolds, PTL

(* For any number of hosts and with every fault allowed: a published count *)
(* and the reservation together cover the workers a host runs.             *)
THEOREM PublicationCovers == Spec => []PublishedCoversRunning
<1>1. IInv => PublishedCoversRunning
  BY DEF IInv, HostInv, Published, PublishedCoversRunning
<1> QED BY <1>1, InvariantHolds, PTL

-----------------------------------------------------------------------------
(* How far all hosts together may overshoot.  A governor that dies, a      *)
(* worker that exits, an observation that lags, a launch that falls short, *)
(* a status file that is not written and a peer that expired before it was *)
(* first heard are all allowed; a cycle that fails is not, because its     *)
(* status file then hides the host's workers.                              *)
NoCycleFails == Faults \cap {"loss", "observation", "actuation"} = {}

CalmAt(h) ==
  /\ status[h] # Unknown /\ pc[h] # "failed"
  /\ pending[h].count <= StepUp[h]
  /\ total[h] <= Fleet.max_workers
  /\ expired[h] = {}
  /\ pc[h] # "idle" => \A p \in Peers(h) : age[h][p] = "fresh"
  /\ pc[h] \in {"idle", "pulled", "gate"} => \A p \in Peers(h) : repull[h][p] = NotRead

Calm == \A h \in Hosts : CalmAt(h)

(* The workers a host may run without passing a gate again.                *)
Reach(h) ==
  IF pc[h] = "actuate" /\ desired[h] # seen[h] THEN Max2(running[h], desired[h]) ELSE running[h]

(* One launch decides how many workers there may be: among the launches    *)
(* that were admitted, the one whose reservation was published last.  base *)
(* is what its gate added up: its own target, and what it read of each     *)
(* peer's status file, which hides at most one launch of that peer.  turn  *)
(* orders the published reservations; those up to now came before it, so   *)
(* it has read a status file that counts what they were based on.  A gate  *)
(* that was published later has read of every peer what it needs to become *)
(* the deciding one in its turn.                                           *)
Deciding(c, base, turn, now, last) ==
  /\ Total(base) <= Fleet.max_workers
  /\ now <= last /\ \A h \in Hosts : turn[h] <= last
  /\ \A h, k \in Hosts : h # k /\ pc[h] = "repull" /\ pc[k] = "repull" => turn[h] # turn[k]
  /\ Reach(c) <= base[c]
  /\ pc[c] = "repull" => turn[c] > now
  /\ \A h \in Hosts \ {c} :
       /\ Reach(h) <= base[h] + StepUp[h]
       /\ pc[h] = "repull" /\ turn[h] <= now => seen[h] <= base[h]
  /\ \A h \in Hosts : \A p \in Peers(h) :
       pc[h] = "repull" /\ turn[h] > now /\ repull[h][p].workers # Unknown =>
         /\ Reach(p) <= repull[h][p].workers + StepUp[p]
         /\ pc[p] = "repull" /\ turn[p] < turn[h] => seen[p] <= repull[h][p].workers

Decided ==
  \E c \in Hosts, base \in [Hosts -> Nat], turn \in [Hosts -> Nat], now \in Nat, last \in Nat :
    Deciding(c, base, turn, now, last)

OInv == IInv /\ Calm /\ Decided

LEMMA ReachNat ==
  ASSUME TypeOK, NEW h \in Hosts
  PROVE  Reach(h) \in Nat /\ running[h] <= Reach(h)
BY DEF TypeOK, Reach, Max2

(* A host's status file alone hides at most one launch of the host.        *)
LEMMA StatusHidesOneLaunch ==
  ASSUME IInv, Calm, NEW h \in Hosts
  PROVE  /\ GovernedWorkers(h) = status[h] /\ status[h] \in Nat
         /\ Reach(h) <= status[h] + StepUp[h]
         /\ pc[h] = "repull" => seen[h] <= status[h]
<1>1. /\ status[h] \in Nat /\ status[h] # Unknown /\ pending[h].count <= StepUp[h]
      /\ running[h] \in Nat /\ desired[h] \in Nat /\ pending[h].count \in Nat
  BY DEF IInv, TypeOK, Calm, CalmAt
<1>2. StepUp[h] \in Nat
  BY StepUpAssumption
<1>3. running[h] <= status[h] + pending[h].count
  BY <1>1 DEF IInv, HostInv, Published
<1>4. pc[h] = "actuate" => desired[h] <= status[h] + pending[h].count
  BY <1>1 DEF IInv, HostInv, AtActuate, Published
<1>5. Reach(h) <= status[h] + StepUp[h]
  BY <1>1, <1>2, <1>3, <1>4 DEF Reach, Max2
<1>6. pc[h] = "repull" => seen[h] <= status[h]
  BY <1>1 DEF IInv, HostInv, AtGate
<1> QED BY <1>1, <1>5, <1>6 DEF GovernedWorkers

-----------------------------------------------------------------------------
LEMMA PermittedWithinStep ==
  ASSUME TypeOK, NEW h \in Hosts, ReadInOrder(h), seen[h] < desired[h]
  PROVE  Permitted(h) \in Nat /\ Permitted(h) <= StepUp[h]
<1>1. Permitted(h) \in Nat /\ Want(h) \in Nat /\ PeersCommitted(h) \in Nat
  BY PermittedNat, WantNat, CommittedNat
<1>2. seen[h] \in Nat /\ total[h] \in Nat /\ StepUp[h] \in Nat /\ desired[h] \in Nat
  BY StepUpAssumption DEF TypeOK
<1>3. Want(h) <= StepUp[h]
  BY <1>2 DEF Want, Min2
<1>4. SaturatingSub(SaturatingSub(total[h], seen[h]), PeersCommitted(h)) \in Nat
  BY <1>1, <1>2, SaturatingSubNat
<1>5. Permitted(h) <= Want(h)
  BY <1>1, <1>4, MinMaxNat DEF Permitted
<1> QED BY <1>1, <1>2, <1>3, <1>5

LEMMA TotalBound ==
  ASSUME TypeOK, NEW h \in Hosts, NEW workers \in Nat, NEW raw \in RawTargets
  PROVE  ApplyStepLimits(raw, Denominator(h, workers), Fleet) <= Fleet.max_workers
<1>1. Denominator(h, workers) \in Nat
  BY DenominatorNat
<1>2. ApplyStepLimits(raw, Denominator(h, workers), Fleet) \in Fleet.min_workers .. Fleet.max_workers
  BY <1>1, StepLimitsHold, FleetAssumption, RawAssumption
<1> QED BY <1>2, FleetAssumption, FleetFields

LEMMA CalmInit == Init => Calm
<1> SUFFICES ASSUME Init PROVE Calm
  OBVIOUS
<1>1. Fleet.max_workers \in Nat
  BY FleetAssumption, FleetFields
<1> QED BY <1>1, StepUpAssumption DEF Init, Calm, CalmAt, Unknown

LEMMA EndCycleCalm ==
  ASSUME IInv, Calm, NEW h \in Hosts, EndCycle(h),
         status'[h] # Unknown, pending'[h].count <= StepUp[h],
         \A k \in Hosts \ {h} : /\ status'[k] = status[k] /\ pending'[k] = pending[k]
                                /\ age'[k] = age[k]
  PROVE  Calm'
<1>1. Fleet.max_workers \in Nat
  BY FleetAssumption, FleetFields
<1>2. CalmAt(h)'
  BY <1>1 DEF IInv, TypeOK, EndCycle, CalmAt
<1>3. ASSUME NEW k \in Hosts \ {h} PROVE CalmAt(k)'
  BY DEF IInv, TypeOK, EndCycle, Calm, CalmAt
<1> QED BY <1>2, <1>3 DEF Calm

LEMMA CycleCalm ==
  ASSUME IInv, Calm, NoCycleFails, NEW h \in Hosts, Cycle(h)
  PROVE  Calm'
<1> USE DEF protocolVars, localVars, peerVars
<1>0. ASSUME NEW k \in Hosts PROVE CalmAt(k)
  BY DEF Calm
<1>1. CASE PullPeers(h)
  <2>1. PICK answered \in SUBSET Peers(h) :
       /\ "loss" \in Faults \/ answered = Peers(h)
       /\ age' = [age EXCEPT ![h] =
                    [p \in Peers(h) |-> IF p \in answered THEN "fresh" ELSE age[h][p]]]
    BY <1>1 DEF PullPeers
  <2>2. answered = Peers(h)
    BY <2>1 DEF NoCycleFails
  <2>3. (\A p \in Peers(h) : age'[h][p] = "fresh") /\ \A k \in Hosts \ {h} : age'[k] = age[k]
    BY <2>1, <2>2 DEF IInv, TypeOK
  <2>4. pc[h] = "idle" /\ pc' = [pc EXCEPT ![h] = "pulled"]
        /\ UNCHANGED <<status, pending, total, expired, repull>>
    BY <1>1 DEF PullPeers
  <2> QED BY <1>0, <2>3, <2>4 DEF IInv, TypeOK, Calm, CalmAt
<1>2. CASE Decide(h)
  <2>1. PICK workers \in Observable(h), raw \in RawTargets, hold \in BOOLEAN, gated \in BOOLEAN :
          /\ total' = [total EXCEPT ![h] = ApplyStepLimits(raw, Denominator(h, workers), Fleet)]
          /\ expired' = [expired EXCEPT ![h] = {p \in Peers(h) : age[h][p] = "expired"}]
          /\ pc' = [pc EXCEPT ![h] = IF gated THEN "gate" ELSE IF hold THEN "report" ELSE "actuate"]
    BY <1>2, DecideEffect DEF IInv
  <2>2. workers \in Nat
    BY ObservableRange DEF IInv
  <2>3. total'[h] <= Fleet.max_workers /\ \A k \in Hosts \ {h} : total'[k] = total[k]
    BY <2>1, <2>2, TotalBound DEF IInv, TypeOK
  <2>4. pc[h] = "pulled" /\ UNCHANGED <<status, pending, age, repull>>
    BY <1>2 DEF Decide
  <2>5. expired'[h] = {} /\ \A k \in Hosts \ {h} : expired'[k] = expired[k]
    BY <1>0, <2>1, <2>4 DEF IInv, TypeOK, CalmAt
  <2>6. pc'[h] \in {"gate", "report", "actuate"} /\ \A k \in Hosts \ {h} : pc'[k] = pc[k]
    BY <2>1 DEF IInv, TypeOK
  <2>7. CalmAt(h)'
    BY <1>0, <2>3, <2>4, <2>5, <2>6 DEF CalmAt
  <2>8. ASSUME NEW k \in Hosts \ {h} PROVE CalmAt(k)'
    BY <1>0, <2>3, <2>4, <2>5, <2>6 DEF CalmAt
  <2> QED BY <2>7, <2>8 DEF Calm
<1>3. CASE GatePublish(h)
  <2>1. /\ pc[h] = "gate" /\ pc' = [pc EXCEPT ![h] = "repull"]
        /\ pending' = [pending EXCEPT ![h] = [count |-> Want(h), baseline |-> seen[h]]]
        /\ UNCHANGED <<status, total, expired, age, repull>>
    BY <1>3 DEF GatePublish
  <2>2. Want(h) \in Nat /\ Want(h) <= StepUp[h]
    <3>1. seen[h] < desired[h] /\ seen[h] \in Nat /\ desired[h] \in Nat /\ StepUp[h] \in Nat
      BY <2>1, StepUpAssumption DEF IInv, TypeOK, HostInv, AtGate
    <3> QED BY <3>1 DEF Want, Min2
  <2>3. pending'[h].count = Want(h) /\ \A k \in Hosts \ {h} : pending'[k] = pending[k]
    BY <2>1 DEF IInv, TypeOK
  <2> QED BY <1>0, <2>1, <2>2, <2>3 DEF IInv, TypeOK, Calm, CalmAt
<1>4. CASE \E p \in Peers(h) : RepullStatus(h, p) \/ RepullPending(h, p)
  <2>1. PICK p \in Peers(h) : RepullStatus(h, p) \/ RepullPending(h, p)
    BY <1>4
  <2>2. /\ pc[h] = "repull" /\ UNCHANGED <<status, pending, pc, total, expired, age>>
        /\ \A k \in Hosts \ {h} : repull'[k] = repull[k]
    BY <2>1 DEF RepullStatus, RepullPending, IInv, TypeOK
  <2>3. ASSUME NEW k \in Hosts PROVE CalmAt(k)'
    BY <1>0, <2>2 DEF CalmAt
  <2> QED BY <2>3 DEF Calm
<1>5. CASE GateCommit(h)
  <2>1. /\ pc[h] = "repull" /\ pc' = [pc EXCEPT ![h] = "actuate"]
        /\ pending' = [pending EXCEPT ![h] =
                   IF Permitted(h) = 0 THEN NoPending
                   ELSE [count |-> Permitted(h), baseline |-> seen[h]]]
        /\ UNCHANGED <<status, total, expired, age, repull>>
    BY <1>5 DEF GateCommit
  <2>2. Permitted(h) \in Nat /\ Permitted(h) <= StepUp[h]
    BY <2>1, PermittedWithinStep DEF IInv, HostInv, AtGate
  <2>4. pending'[h].count <= StepUp[h] /\ \A k \in Hosts \ {h} : pending'[k] = pending[k]
    BY <2>1, <2>2 DEF IInv, TypeOK
  <2> QED BY <1>0, <2>1, <2>4 DEF IInv, TypeOK, Calm, CalmAt
<1>6. CASE Actuate(h)
  BY <1>0, <1>6 DEF Actuate, IInv, TypeOK, Calm, CalmAt
<1>7. CASE WriteStatus(h)
  <2>1. status'[h] # Unknown /\ \A k \in Hosts \ {h} : status'[k] = status[k]
    BY <1>7 DEF WriteStatus, IInv, TypeOK, Unknown
  <2>2. CASE observed[h]
    BY <1>0, <1>7, <2>1, <2>2 DEF WriteStatus, IInv, TypeOK, Calm, CalmAt
  <2>3. CASE ~observed[h]
    BY <1>0, <1>7, <2>1, <2>3, EndCycleCalm DEF WriteStatus, CalmAt
  <2> QED BY <2>2, <2>3
<1>8. CASE ClearPending(h)
  <2>1. pending'[h].count <= StepUp[h] /\ \A k \in Hosts \ {h} : pending'[k] = pending[k]
    <3>1. pending' = [pending EXCEPT ![h] = NoPending] /\ NoPending.count = 0 /\ StepUp[h] \in Nat
      BY <1>8, StepUpAssumption DEF ClearPending
    <3> QED BY <3>1 DEF IInv, TypeOK
  <2> QED BY <1>0, <1>8, <2>1, EndCycleCalm DEF ClearPending, CalmAt
<1>9. ~WriteFailure(h)
  BY <1>0 DEF WriteFailure, CalmAt
<1> QED BY <1>1, <1>2, <1>3, <1>4, <1>5, <1>6, <1>7, <1>8, <1>9 DEF Cycle

LEMMA FaultCalm ==
  ASSUME IInv, Calm, NoCycleFails, NEW h \in Hosts, Fault(h)
  PROVE  Calm'
<1> USE DEF protocolVars, localVars, peerVars
<1>0. ASSUME NEW k \in Hosts PROVE CalmAt(k)
  BY DEF Calm
<1>1. ~ObservationFails(h) /\ ~GateFails(h) /\ ~ActuationFails(h)
  BY DEF NoCycleFails, ObservationFails, GateFails, ActuationFails
<1>2. CASE StatusWriteFails(h)
  BY <1>0, <1>2, EndCycleCalm DEF StatusWriteFails, CalmAt
<1>3. CASE WorkerExits(h)
  BY <1>0, <1>3 DEF WorkerExits, Calm, CalmAt
<1>4. CASE Crash(h)
  <2>1. \A k \in Hosts \ {h} : age'[k] = age[k]
    BY <1>4 DEF Crash, IInv, TypeOK
  <2> QED BY <1>0, <1>4, <2>1, EndCycleCalm DEF Crash, CalmAt
<1>5. ASSUME NEW p \in Peers(h), Aging(h, p) PROVE Calm'
  <2>1. age[h][p] = "stale" /\ age' = [age EXCEPT ![h][p] = "expired"]
    BY <1>5 DEF Aging, NoCycleFails
  <2>2. pc[h] = "idle" /\ \A k \in Hosts \ {h} : age'[k] = age[k]
    BY <1>0, <2>1 DEF CalmAt, IInv, TypeOK
  <2> QED BY <1>0, <1>5, <2>2 DEF Aging, Calm, CalmAt
<1> QED BY <1>1, <1>2, <1>3, <1>4, <1>5 DEF Fault

-----------------------------------------------------------------------------
(* A step that lets no host reach further, starts no gate and changes no   *)
(* count that was read.                                                    *)
LEMMA NothingGained ==
  ASSUME TypeOK, TypeOK', Decided,
         \A h \in Hosts : Reach(h)' <= Reach(h),
         \A h \in Hosts : pc'[h] = "repull" =>
           /\ pc[h] = "repull" /\ seen'[h] = seen[h]
           /\ \A p \in Peers(h) : repull'[h][p].workers = repull[h][p].workers
  PROVE  Decided'
<1>1. PICK c \in Hosts, base \in [Hosts -> Nat], turn \in [Hosts -> Nat], now \in Nat, last \in Nat :
        Deciding(c, base, turn, now, last)
  BY DEF Decided
<1>2. \A h \in Hosts : Reach(h) \in Nat /\ Reach(h)' \in Nat /\ StepUp[h] \in Nat
  BY ReachNat, StepUpAssumption DEF Reach, TypeOK, Max2
<1>3. \A h \in Hosts : \A p \in Peers(h) : repull[h][p].workers \in Count /\ p \in Hosts
  <2>1. \A h \in Hosts : \A p \in Peers(h) : repull[h][p].workers \in Count
    BY DEF TypeOK
  <2> QED BY <2>1 DEF Peers
<1>4. Deciding(c, base, turn, now, last)'
  <2>1. Reach(c)' <= base[c] /\ (pc'[c] = "repull" => turn[c] > now)
    BY <1>1, <1>2 DEF Deciding
  <2>2. ASSUME NEW h \in Hosts \ {c}
        PROVE  /\ Reach(h)' <= base[h] + StepUp[h]
               /\ pc'[h] = "repull" /\ turn[h] <= now => seen'[h] <= base[h]
    BY <1>1, <1>2 DEF Deciding
  <2>3. ASSUME NEW h \in Hosts, NEW p \in Peers(h), pc'[h] = "repull", turn[h] > now,
               repull'[h][p].workers # Unknown
        PROVE  /\ Reach(p)' <= repull'[h][p].workers + StepUp[p]
               /\ pc'[p] = "repull" /\ turn[p] < turn[h] => seen'[p] <= repull'[h][p].workers
    <3>1. /\ p \in Hosts /\ pc[h] = "repull" /\ repull'[h][p].workers = repull[h][p].workers
          /\ repull[h][p].workers \in Nat
      BY <1>3, <2>3
    <3>2. /\ Reach(p) <= repull[h][p].workers + StepUp[p]
          /\ pc[p] = "repull" /\ turn[p] < turn[h] => seen[p] <= repull[h][p].workers
      BY <1>1, <2>3, <3>1 DEF Deciding
    <3> QED BY <1>2, <3>1, <3>2
  <2> QED BY <1>1, <2>1, <2>2, <2>3 DEF Deciding
<1> QED BY <1>4 DEF Decided

LEMMA DecidedInit == Init => Decided
<1> SUFFICES ASSUME Init PROVE Decided
  OBVIOUS
<1>1. PICK c \in Hosts : TRUE
  BY HostsFinite
<1>2. running \in [Hosts -> Nat] /\ Fleet.max_workers \in Nat
  BY FleetAssumption, FleetFields DEF Init
<1> DEFINE zero == [h \in Hosts |-> 0]
<1>3. zero \in [Hosts -> Nat] /\ \A h \in Hosts : zero[h] = 0
  OBVIOUS
<1> HIDE DEF zero
<1>4. \A h \in Hosts : pc[h] = "idle" /\ Reach(h) = running[h] /\ running[h] \in Nat /\ StepUp[h] \in Nat
  BY <1>2, StepUpAssumption DEF Init, Reach
<1>5. Deciding(c, running, zero, 0, 0)
  BY <1>1, <1>3, <1>4 DEF Init, Deciding
<1> QED BY <1>1, <1>2, <1>3, <1>5 DEF Decided

(* A published reservation has the latest turn; nothing was read yet.      *)
LEMMA GatePublishDecided ==
  ASSUME OInv, NEW h \in Hosts, GatePublish(h)
  PROVE  Decided'
<1>1. PICK c \in Hosts, base \in [Hosts -> Nat], turn \in [Hosts -> Nat], now \in Nat, last \in Nat :
        Deciding(c, base, turn, now, last)
  BY DEF OInv, Decided
<1>2. /\ pc[h] = "gate" /\ pc'[h] = "repull" /\ \A k \in Hosts \ {h} : pc'[k] = pc[k]
      /\ UNCHANGED <<running, seen, desired, repull>>
  BY DEF GatePublish, localVars, OInv, IInv, TypeOK
<1>3. \A p \in Peers(h) : repull[h][p].workers = Unknown
  BY <1>2 DEF OInv, Calm, CalmAt
<1>4. \A k \in Hosts : Reach(k)' = Reach(k)
  BY <1>2 DEF Reach
<1> DEFINE order == [turn EXCEPT ![h] = last + 1]
<1>5. /\ order \in [Hosts -> Nat] /\ order[h] = last + 1
      /\ \A k \in Hosts \ {h} : order[k] = turn[k]
  OBVIOUS
<1> HIDE DEF order
<1>6. now <= last /\ \A k \in Hosts : turn[k] <= last
  BY <1>1 DEF Deciding
<1>7. \A k \in Hosts : Reach(k) \in Nat /\ StepUp[k] \in Nat
  BY ReachNat, StepUpAssumption DEF OInv, IInv
<1>8. Deciding(c, base, order, now, last + 1)'
  <2>1. now <= last + 1 /\ \A k \in Hosts : order[k] <= last + 1
    BY <1>5, <1>6
  <2>2. \A j, k \in Hosts : j # k /\ pc'[j] = "repull" /\ pc'[k] = "repull" => order[j] # order[k]
    BY <1>1, <1>2, <1>5, <1>6 DEF Deciding
  <2>3. Reach(c)' <= base[c] /\ (pc'[c] = "repull" => order[c] > now)
    BY <1>1, <1>2, <1>4, <1>5, <1>6 DEF Deciding
  <2>4. ASSUME NEW k \in Hosts \ {c}
        PROVE  /\ Reach(k)' <= base[k] + StepUp[k]
               /\ pc'[k] = "repull" /\ order[k] <= now => seen'[k] <= base[k]
    BY <1>1, <1>2, <1>4, <1>5, <1>6 DEF Deciding
  <2>5. ASSUME NEW k \in Hosts, NEW p \in Peers(k), pc'[k] = "repull", order[k] > now,
               repull'[k][p].workers # Unknown
        PROVE  /\ Reach(p)' <= repull'[k][p].workers + StepUp[p]
               /\ pc'[p] = "repull" /\ order[p] < order[k] => seen'[p] <= repull'[k][p].workers
    <3>1. k # h /\ p \in Hosts /\ repull'[k][p] = repull[k][p]
      BY <1>2, <1>3, <2>5 DEF Peers
    <3>2. pc[k] = "repull" /\ turn[k] > now /\ order[k] = turn[k]
      BY <1>2, <1>5, <2>5, <3>1
    <3>3. /\ Reach(p) <= repull[k][p].workers + StepUp[p]
          /\ pc[p] = "repull" /\ turn[p] < turn[k] => seen[p] <= repull[k][p].workers
      BY <1>1, <2>5, <3>1, <3>2 DEF Deciding
    <3>4. pc'[p] = "repull" /\ order[p] < order[k] => pc[p] = "repull" /\ turn[p] < turn[k]
      BY <1>2, <1>5, <1>6, <3>1, <3>2
    <3> QED BY <1>2, <1>4, <3>1, <3>3, <3>4
  <2> QED BY <1>1, <2>1, <2>2, <2>3, <2>4, <2>5 DEF Deciding
<1> QED BY <1>5, <1>8 DEF Decided

(* A count is read while it hides at most one launch of its host.          *)
LEMMA RepullStatusDecided ==
  ASSUME OInv, NEW h \in Hosts, NEW q \in Peers(h), RepullStatus(h, q)
  PROVE  Decided'
<1>1. PICK c \in Hosts, base \in [Hosts -> Nat], turn \in [Hosts -> Nat], now \in Nat, last \in Nat :
        Deciding(c, base, turn, now, last)
  BY DEF OInv, Decided
<1>2. UNCHANGED <<running, pc, seen, desired>> /\ q \in Hosts
  BY DEF RepullStatus, protocolVars, Peers
<1>3. /\ GovernedWorkers(q) = status[q] /\ status[q] \in Nat
      /\ Reach(q) <= status[q] + StepUp[q]
      /\ pc[q] = "repull" => seen[q] <= status[q]
  BY <1>2, StatusHidesOneLaunch DEF OInv
<1>4. /\ repull'[h][q].workers = status[q]
      /\ \A k \in Hosts : \A p \in Peers(k) :
           k # h \/ p # q => repull'[k][p] = repull[k][p]
  BY <1>3 DEF RepullStatus, OInv, IInv, TypeOK
<1>5. \A k \in Hosts : Reach(k)' = Reach(k)
  BY <1>2 DEF Reach
<1>6. Deciding(c, base, turn, now, last)'
  <2>1. ASSUME NEW k \in Hosts, NEW p \in Peers(k), pc'[k] = "repull", turn[k] > now,
               repull'[k][p].workers # Unknown
        PROVE  /\ Reach(p)' <= repull'[k][p].workers + StepUp[p]
               /\ pc'[p] = "repull" /\ turn[p] < turn[k] => seen'[p] <= repull'[k][p].workers
    <3>0. p \in Hosts
      BY DEF Peers
    <3>1. CASE k = h /\ p = q
      BY <1>2, <1>3, <1>4, <1>5, <3>1
    <3>2. CASE k # h \/ p # q
      BY <1>1, <1>2, <1>4, <1>5, <2>1, <3>0, <3>2 DEF Deciding
    <3> QED BY <3>1, <3>2
  <2>2. ASSUME NEW k \in Hosts PROVE Reach(k)' = Reach(k) /\ pc'[k] = pc[k] /\ seen'[k] = seen[k]
    BY <1>2, <1>5
  <2> QED BY <1>1, <2>1, <2>2 DEF Deciding
<1> QED BY <1>6 DEF Decided

-----------------------------------------------------------------------------
(* What the gate added up when it admits a launch: the own target and the  *)
(* counts of all peers are within the shared total.                        *)
ReadBase(h) ==
  [k \in Hosts |-> IF k = h THEN seen[h] + Permitted(h) ELSE repull[h][k].workers]

LEMMA GateAddsUp ==
  ASSUME OInv, NEW h \in Hosts, GateCommit(h), Permitted(h) # 0
  PROVE  ReadBase(h) \in [Hosts -> Nat] /\ Total(ReadBase(h)) <= Fleet.max_workers
<1> DEFINE read == [p \in Peers(h) |-> repull[h][p].workers + repull[h][p].pending]
           base == ReadBase(h)
<1>1. /\ pc[h] = "repull" /\ Peers(h) \subseteq Answered(h) /\ seen[h] < desired[h]
      /\ total[h] <= Fleet.max_workers /\ ReadInOrder(h) /\ h \notin Peers(h)
  BY DEF GateCommit, OInv, Calm, CalmAt, IInv, HostInv, AtGate, Peers
<1>2. Answered(h) = Peers(h)
  BY <1>1 DEF Answered
<1>3. \A p \in Peers(h) : repull[h][p].workers \in Nat /\ repull[h][p].pending \in Nat
  BY <1>1, <1>2 DEF Answered, ReadInOrder, OInv, IInv, TypeOK
<1>4. /\ Permitted(h) \in Nat /\ PeersCommitted(h) \in Nat /\ Want(h) \in Nat
      /\ seen[h] \in Nat /\ total[h] \in Nat /\ Fleet.max_workers \in Nat
  BY <1>1, PermittedNat, CommittedNat, WantNat, FleetAssumption, FleetFields DEF OInv, IInv, TypeOK
<1>5. seen[h] + Permitted(h) + PeersCommitted(h) <= total[h]
  BY <1>4 DEF Permitted, Min2, SaturatingSub
<1>6. /\ base \in [Hosts -> Nat] /\ base[h] = seen[h] + Permitted(h)
      /\ \A p \in Peers(h) : base[p] = repull[h][p].workers
  BY <1>3, <1>4 DEF ReadBase, Peers
<1>7. \A p \in Peers(h) : base[p] \in Nat /\ read[p] \in Nat /\ base[p] <= read[p]
  BY <1>3, <1>6
<1>8. IsFiniteSet(Peers(h)) /\ Hosts \ {h} = Peers(h) /\ {h} \in SUBSET Hosts /\ IsFiniteSet(Hosts)
  BY HostsFinite, FS_Subset DEF Peers
<1>9. PeersCommitted(h) = SumOver(read, Peers(h))
  BY <1>2 DEF PeersCommitted
<1> HIDE DEF read, base
<1>10. SumOver(base, Peers(h)) <= SumOver(read, Peers(h))
  BY <1>7, <1>8, SumMonotonic
<1>11. SumOver(base, Hosts) = SumOver(base, Peers(h)) + base[h]
  <2>1. Hosts = Peers(h) \cup {h} /\ Peers(h) \in SUBSET Hosts /\ h \in Hosts \ Peers(h)
    BY DEF Peers
  <2>2. \A x \in Hosts : base[x] \in Nat
    BY <1>6
  <2>3. SumOver(base, Peers(h) \cup {h}) = SumOver(base, Peers(h)) + base[h]
    BY <1>8, <2>1, <2>2, SumAdd
  <2> QED BY <2>1, <2>3
<1>12. SumOver(base, Peers(h)) \in Nat /\ SumOver(read, Peers(h)) \in Nat
  BY <1>7, <1>8, SumOverNat
<1>13. SumOver(base, Hosts) <= Fleet.max_workers
  BY <1>1, <1>4, <1>5, <1>6, <1>9, <1>10, <1>11, <1>12
<1>14. Total(base) = SumOver(base, Hosts)
  BY <1>6 DEF Total
<1> QED BY <1>6, <1>13, <1>14 DEF base

LEMMA GateCommitDecided ==
  ASSUME OInv, IInv', NEW h \in Hosts, GateCommit(h)
  PROVE  Decided'
<1>1. PICK c \in Hosts, base \in [Hosts -> Nat], turn \in [Hosts -> Nat], now \in Nat, last \in Nat :
        Deciding(c, base, turn, now, last)
  BY DEF OInv, Decided
<1>2. /\ pc[h] = "repull" /\ pc'[h] = "actuate" /\ \A k \in Hosts \ {h} : pc'[k] = pc[k]
      /\ desired'[h] = seen[h] + Permitted(h) /\ \A k \in Hosts \ {h} : desired'[k] = desired[k]
      /\ UNCHANGED <<running, seen, repull>>
  BY DEF GateCommit, OInv, IInv, TypeOK
<1>3. /\ running[h] \in Nat /\ seen[h] \in Nat /\ Permitted(h) \in Nat /\ running[h] <= seen[h]
      /\ seen[h] < desired[h] /\ Permitted(h) <= StepUp[h]
  BY <1>2, PermittedWithinStep, PermittedNat DEF OInv, IInv, TypeOK, HostInv, AtGate
<1>4. \A k \in Hosts : Reach(k) \in Nat /\ StepUp[k] \in Nat
  BY ReachNat, StepUpAssumption DEF OInv, IInv
<1>5. \A k \in Hosts \ {h} : Reach(k)' = Reach(k)
  BY <1>2 DEF Reach
<1>6. CASE Permitted(h) = 0
  <2>1. Reach(h)' = running[h] /\ Reach(h) = running[h]
    BY <1>2, <1>3, <1>6 DEF Reach
  <2>2. \A k \in Hosts : Reach(k)' <= Reach(k)
    BY <1>4, <1>5, <2>1
  <2> QED BY <1>2, <2>2, NothingGained DEF OInv, IInv
<1>7. ASSUME Permitted(h) # 0 PROVE Reach(h)' = seen[h] + Permitted(h)
  BY <1>2, <1>3, <1>7 DEF Reach, Max2
<1>8. ASSUME Permitted(h) # 0, NEW k \in Hosts, NEW p \in Peers(k), pc'[k] = "repull",
             turn[k] > now, turn[k] > turn[h], repull'[k][p].workers # Unknown
      PROVE  /\ Reach(p)' <= repull'[k][p].workers + StepUp[p]
             /\ pc'[p] = "repull" /\ turn[p] < turn[k] => seen'[p] <= repull'[k][p].workers
  <2>1. /\ p \in Hosts /\ pc[k] = "repull" /\ repull'[k][p].workers = repull[k][p].workers
        /\ repull[k][p].workers \in Nat
    <3>1. p \in Hosts /\ k # h
      BY <1>2, <1>8 DEF Peers
    <3>2. repull[k][p].workers \in Nat \/ repull[k][p].workers = Unknown
      BY DEF OInv, IInv, TypeOK
    <3> QED BY <1>2, <1>8, <3>1, <3>2
  <2>2. /\ Reach(p) <= repull[k][p].workers + StepUp[p]
        /\ pc[p] = "repull" /\ turn[p] < turn[k] => seen[p] <= repull[k][p].workers
    BY <1>1, <1>8, <2>1 DEF Deciding
  <2>3. CASE p = h
    <3>1. seen[h] <= repull[k][p].workers
      BY <1>2, <1>8, <2>2, <2>3
    <3>2. Reach(h)' = seen[h] + Permitted(h)
      BY <1>7, <1>8
    <3> QED BY <1>2, <1>3, <1>4, <2>1, <2>3, <3>1, <3>2
  <2>4. CASE p # h
    BY <1>2, <1>5, <2>1, <2>2, <2>4
  <2> QED BY <2>3, <2>4
<1>9. CASE Permitted(h) # 0 /\ turn[h] <= now
  <2>1. h # c /\ seen[h] <= base[h]
    BY <1>1, <1>2, <1>9 DEF Deciding
  <2>2. Reach(h)' <= base[h] + StepUp[h]
    BY <1>3, <1>4, <1>7, <1>9, <2>1
  <2>3. ASSUME NEW k \in Hosts \ {c}
        PROVE  /\ Reach(k)' <= base[k] + StepUp[k]
               /\ pc'[k] = "repull" /\ turn[k] <= now => seen'[k] <= base[k]
    BY <1>1, <1>2, <1>5, <2>2 DEF Deciding
  <2>4. Reach(c)' <= base[c] /\ (pc'[c] = "repull" => turn[c] > now)
    BY <1>1, <1>2, <1>5, <2>1 DEF Deciding
  <2>5. \A j, k \in Hosts : j # k /\ pc'[j] = "repull" /\ pc'[k] = "repull" => turn[j] # turn[k]
    BY <1>1, <1>2 DEF Deciding
  <2>6. ASSUME NEW k \in Hosts, NEW p \in Peers(k), pc'[k] = "repull",
               turn[k] > now, repull'[k][p].workers # Unknown
        PROVE  /\ Reach(p)' <= repull'[k][p].workers + StepUp[p]
               /\ pc'[p] = "repull" /\ turn[p] < turn[k] => seen'[p] <= repull'[k][p].workers
    BY <1>8, <1>9, <2>6
  <2>7. Deciding(c, base, turn, now, last)'
    BY <1>1, <2>3, <2>4, <2>5, <2>6 DEF Deciding
  <2> QED BY <2>7 DEF Decided
<1>10. CASE Permitted(h) # 0 /\ turn[h] > now
  <2>1. PICK read \in [Hosts -> Nat] : read = ReadBase(h) /\ Total(read) <= Fleet.max_workers
    BY <1>10, GateAddsUp
  <2>2. /\ read[h] = seen[h] + Permitted(h)
        /\ \A k \in Hosts \ {h} : read[k] = repull[h][k].workers /\ read[k] # Unknown
    BY <2>1 DEF ReadBase, Unknown
  <2>3. Reach(h)' <= read[h] /\ pc'[h] # "repull"
    BY <1>2, <1>3, <1>7, <1>10, <2>2
  <2>4. ASSUME NEW k \in Hosts \ {h}
        PROVE  /\ Reach(k)' <= read[k] + StepUp[k]
               /\ pc'[k] = "repull" /\ turn[k] <= turn[h] => seen'[k] <= read[k]
    <3>1. k \in Peers(h) /\ repull[h][k].workers # Unknown
      BY <2>2 DEF Peers
    <3>2. /\ Reach(k) <= repull[h][k].workers + StepUp[k]
          /\ pc[k] = "repull" /\ turn[k] < turn[h] => seen[k] <= repull[h][k].workers
      BY <1>1, <1>2, <1>10, <3>1 DEF Deciding
    <3>3. pc[k] = "repull" => turn[k] # turn[h]
      BY <1>1, <1>2 DEF Deciding
    <3> QED BY <1>2, <1>5, <2>2, <3>2, <3>3
  <2>5. \A j, k \in Hosts : j # k /\ pc'[j] = "repull" /\ pc'[k] = "repull" => turn[j] # turn[k]
    BY <1>1, <1>2 DEF Deciding
  <2>6. ASSUME NEW k \in Hosts, NEW p \in Peers(k), pc'[k] = "repull",
               turn[k] > turn[h], repull'[k][p].workers # Unknown
        PROVE  /\ Reach(p)' <= repull'[k][p].workers + StepUp[p]
               /\ pc'[p] = "repull" /\ turn[p] < turn[k] => seen'[p] <= repull'[k][p].workers
    BY <1>8, <1>10, <2>6
  <2>7. turn[h] <= last /\ \A k \in Hosts : turn[k] <= last
    BY <1>1 DEF Deciding
  <2>8. Deciding(h, read, turn, turn[h], last)'
    BY <2>1, <2>3, <2>4, <2>5, <2>6, <2>7 DEF Deciding
  <2> QED BY <2>1, <2>8 DEF Decided
<1> QED BY <1>6, <1>9, <1>10

(* Every other step lets no host reach further.                            *)
LEMMA DecideGainsNothing ==
  ASSUME OInv, IInv', NEW h \in Hosts, Decide(h)
  PROVE  Decided'
<1>1. PICK workers \in Observable(h), raw \in RawTargets, hold \in BOOLEAN,
           target \in Nat, gated \in BOOLEAN, noLaunch \in Nat :
        /\ noLaunch <= workers
        /\ seen' = [seen EXCEPT ![h] = workers]
        /\ desired' = [desired EXCEPT ![h] = IF gated THEN target ELSE noLaunch]
        /\ pc' = [pc EXCEPT ![h] = IF gated THEN "gate" ELSE IF hold THEN "report" ELSE "actuate"]
  BY DecideEffect DEF OInv, IInv
<1>2. pc[h] = "pulled" /\ UNCHANGED <<running, repull>>
  BY DEF Decide, protocolVars
<1>3. workers \in Nat /\ workers <= running[h] /\ running[h] \in Nat
  BY ObservableRange DEF OInv, IInv, TypeOK
<1>4. Reach(h) = running[h]
  BY <1>2 DEF Reach
<1>5. Reach(h)' = running[h]
  <2>1. /\ pc'[h] = IF gated THEN "gate" ELSE IF hold THEN "report" ELSE "actuate"
        /\ desired'[h] = IF gated THEN target ELSE noLaunch
    BY <1>1 DEF OInv, IInv, TypeOK
  <2>2. CASE gated
    BY <1>2, <2>1, <2>2 DEF Reach
  <2>3. CASE ~gated
    BY <1>1, <1>2, <1>3, <2>1, <2>3 DEF Reach, Max2
  <2> QED BY <2>2, <2>3
<1>6. /\ \A k \in Hosts \ {h} : pc'[k] = pc[k] /\ seen'[k] = seen[k] /\ desired'[k] = desired[k]
      /\ pc'[h] # "repull"
  BY <1>1 DEF OInv, IInv, TypeOK
<1>7. \A k \in Hosts \ {h} : Reach(k)' = Reach(k)
  BY <1>2, <1>6 DEF Reach
<1>8. \A k \in Hosts : Reach(k) \in Nat
  BY ReachNat DEF OInv, IInv
<1>9. \A k \in Hosts : Reach(k)' <= Reach(k)
  BY <1>3, <1>4, <1>5, <1>7, <1>8
<1> QED BY <1>2, <1>6, <1>9, NothingGained DEF OInv, IInv

LEMMA ActuateGainsNothing ==
  ASSUME OInv, IInv', NEW h \in Hosts, Actuate(h)
  PROVE  Decided'
<1>1. PICK reached \in {desired[h]} \cup
                    (IF "short" \in Faults THEN running[h] .. desired[h] ELSE {}) :
        running' = [running EXCEPT ![h] = IF desired[h] = seen[h] THEN @ ELSE reached]
  BY DEF Actuate
<1>2. /\ pc[h] = "actuate" /\ pc'[h] = "report" /\ \A k \in Hosts \ {h} : pc'[k] = pc[k]
      /\ UNCHANGED <<seen, desired, repull>>
  BY DEF Actuate, localVars, OInv, IInv, TypeOK
<1>3. running[h] \in Nat /\ desired[h] \in Nat /\ seen[h] \in Nat
  BY DEF OInv, IInv, TypeOK
<1>4. reached \in Nat /\ reached <= desired[h]
  BY <1>1, <1>3
<1>5. /\ running'[h] = IF desired[h] = seen[h] THEN running[h] ELSE reached
      /\ \A k \in Hosts \ {h} : running'[k] = running[k]
  BY <1>1 DEF OInv, IInv, TypeOK
<1>6. Reach(h)' <= Reach(h)
  BY <1>2, <1>3, <1>4, <1>5 DEF Reach, Max2
<1>7. \A k \in Hosts \ {h} : Reach(k)' = Reach(k)
  BY <1>2, <1>5 DEF Reach
<1>8. \A k \in Hosts : Reach(k) \in Nat
  BY ReachNat DEF OInv, IInv
<1>9. \A k \in Hosts : Reach(k)' <= Reach(k)
  BY <1>6, <1>7, <1>8
<1> QED BY <1>2, <1>9, NothingGained DEF OInv, IInv

(* Ends of a cycle, with or without the status file written, and crashes.  *)
LEMMA EndGainsNothing ==
  ASSUME OInv, IInv', NEW h \in Hosts, EndCycle(h), running' = running
  PROVE  Decided'
<1>1. /\ pc'[h] = "idle"
      /\ \A k \in Hosts \ {h} : /\ pc'[k] = pc[k] /\ seen'[k] = seen[k] /\ desired'[k] = desired[k]
                                /\ repull'[k] = repull[k]
  BY DEF EndCycle, OInv, IInv, TypeOK
<1>2. Reach(h)' <= Reach(h)
  <2>1. running[h] <= Reach(h)
    BY ReachNat DEF OInv, IInv
  <2>2. Reach(h)' = running[h]
    BY <1>1 DEF Reach
  <2> QED BY <2>1, <2>2
<1>3. \A k \in Hosts \ {h} : Reach(k)' = Reach(k)
  BY <1>1 DEF Reach
<1>4. \A k \in Hosts : Reach(k) \in Nat
  BY ReachNat DEF OInv, IInv
<1>5. \A k \in Hosts : Reach(k)' <= Reach(k)
  BY <1>2, <1>3, <1>4
<1> QED BY <1>1, <1>5, NothingGained DEF OInv, IInv

LEMMA ExitGainsNothing ==
  ASSUME OInv, IInv', NEW h \in Hosts, WorkerExits(h)
  PROVE  Decided'
<1>1. /\ running'[h] = running[h] - 1 /\ running[h] \in Nat /\ desired[h] \in Nat
      /\ \A k \in Hosts \ {h} : running'[k] = running[k]
      /\ UNCHANGED <<pc, seen, desired, repull>>
  BY DEF WorkerExits, localVars, OInv, IInv, TypeOK
<1>2. Reach(h)' <= Reach(h)
  BY <1>1 DEF Reach, Max2
<1>3. \A k \in Hosts \ {h} : Reach(k)' = Reach(k)
  BY <1>1 DEF Reach
<1>4. \A k \in Hosts : Reach(k) \in Nat
  BY ReachNat DEF OInv, IInv
<1>5. \A k \in Hosts : Reach(k)' <= Reach(k)
  BY <1>2, <1>3, <1>4
<1> QED BY <1>1, <1>5, NothingGained DEF OInv, IInv

(* Steps that touch neither workers nor targets.                           *)
LEMMA QuietGainsNothing ==
  ASSUME OInv, IInv', UNCHANGED <<running, seen, desired>>,
         \A k \in Hosts : /\ pc'[k] = pc[k] \/ pc'[k] \notin {"actuate", "repull"}
                          /\ \A p \in Peers(k) : repull'[k][p].workers = repull[k][p].workers
  PROVE  Decided'
<1>1. \A k \in Hosts : Reach(k) \in Nat /\ running[k] <= Reach(k)
  BY ReachNat DEF OInv, IInv
<1>2. \A k \in Hosts : Reach(k)' = Reach(k) \/ Reach(k)' = running[k]
  BY DEF Reach
<1>3. \A k \in Hosts : Reach(k)' <= Reach(k)
  BY <1>1, <1>2
<1>4. \A k \in Hosts : pc'[k] = "repull" => pc[k] = "repull" /\ seen'[k] = seen[k]
  OBVIOUS
<1> QED BY <1>3, <1>4, NothingGained DEF OInv, IInv

LEMMA RepullPendingDecided ==
  ASSUME OInv, IInv', NEW h \in Hosts, NEW q \in Peers(h), RepullPending(h, q)
  PROVE  Decided'
<1>1. UNCHANGED <<running, seen, desired, pc>>
  BY DEF RepullPending, protocolVars
<1>2. \A k \in Hosts : \A p \in Peers(k) : repull'[k][p].workers = repull[k][p].workers
  BY DEF RepullPending, OInv, IInv, TypeOK
<1> QED BY <1>1, <1>2, QuietGainsNothing

-----------------------------------------------------------------------------
LEMMA OvershootInit == Init => OInv
BY InitInv, CalmInit, DecidedInit DEF OInv

LEMMA OvershootNext ==
  ASSUME NoCycleFails
  PROVE  OInv /\ [Next]_vars => OInv'
<1>1. OInv /\ UNCHANGED vars => OInv'
  <2> SUFFICES ASSUME OInv, UNCHANGED vars PROVE OInv'
    OBVIOUS
  <2>1. IInv'
    BY StutterInv DEF OInv
  <2>2. Calm'
    BY DEF vars, OInv, Calm, CalmAt
  <2>3. Decided'
    BY <2>1, QuietGainsNothing DEF vars
  <2> QED BY <2>1, <2>2, <2>3 DEF OInv
<1> SUFFICES ASSUME OInv, Next PROVE OInv'
  BY <1>1
<1>2. PICK h \in Hosts : Cycle(h) \/ Fault(h)
  BY DEF Next
<1>3. IInv'
  BY NextInv DEF OInv
<1>4. Calm'
  BY <1>2, CycleCalm, FaultCalm DEF OInv
<1>5. Decided'
  <2> USE DEF protocolVars, localVars
  <2>1. CASE PullPeers(h)
    <3>1. \A k \in Hosts : pc'[k] = pc[k] \/ pc'[k] \notin {"actuate", "repull"}
      BY <2>1 DEF PullPeers, OInv, IInv, TypeOK
    <3> QED BY <1>3, <2>1, <3>1, QuietGainsNothing DEF PullPeers
  <2>2. CASE \E p \in Peers(h) : RepullStatus(h, p) \/ RepullPending(h, p)
    BY <1>3, <2>2, RepullStatusDecided, RepullPendingDecided
  <2>3. CASE WriteStatus(h)
    <3>1. CASE observed[h]
      <4>1. \A k \in Hosts : pc'[k] = pc[k] \/ pc'[k] \notin {"actuate", "repull"}
        BY <2>3, <3>1 DEF WriteStatus, OInv, IInv, TypeOK
      <4> QED BY <1>3, <2>3, <3>1, <4>1, QuietGainsNothing DEF WriteStatus
    <3>2. CASE ~observed[h]
      BY <1>3, <2>3, <3>2, EndGainsNothing DEF WriteStatus
    <3> QED BY <3>1, <3>2
  <2>4. CASE ClearPending(h) \/ WriteFailure(h) \/ StatusWriteFails(h) \/ Crash(h)
    BY <1>3, <2>4, EndGainsNothing DEF ClearPending, WriteFailure, StatusWriteFails, Crash
  <2>5. ~ObservationFails(h) /\ ~GateFails(h) /\ ~ActuationFails(h)
    BY DEF NoCycleFails, ObservationFails, GateFails, ActuationFails
  <2>6. CASE \E p \in Peers(h) : Aging(h, p)
    BY <1>3, <2>6, QuietGainsNothing DEF Aging
  <2>7. CASE Cycle(h)
    BY <1>3, <2>1, <2>2, <2>3, <2>4, <2>7, DecideGainsNothing, GatePublishDecided,
       GateCommitDecided, ActuateGainsNothing DEF Cycle
  <2>8. CASE Fault(h)
    BY <1>3, <2>4, <2>5, <2>6, <2>8, ExitGainsNothing DEF Fault
  <2> QED BY <1>2, <2>7, <2>8
<1> QED BY <1>3, <1>4, <1>5 DEF OInv

LEMMA DecidedBoundsWorkers ==
  ASSUME OInv
  PROVE  OvershootByPeerSteps
<1>1. PICK c \in Hosts, base \in [Hosts -> Nat], turn \in [Hosts -> Nat], now \in Nat, last \in Nat :
        Deciding(c, base, turn, now, last)
  BY DEF OInv, Decided
<1> DEFINE steps == [h \in Hosts |-> IF h = c THEN 0 ELSE StepUp[h]]
           sum == [h \in Hosts |-> base[h] + steps[h]]
<1>2. /\ StepUp \in [Hosts -> Nat] /\ running \in [Hosts -> Nat] /\ IsFiniteSet(Hosts)
      /\ Fleet.max_workers \in Nat
  BY StepUpAssumption, HostsFinite, FleetAssumption, FleetFields DEF OInv, IInv, TypeOK
<1>3. steps \in [Hosts -> Nat] /\ sum \in [Hosts -> Nat]
  BY <1>2
<1>4. \A h \in Hosts : running[h] \in Nat /\ sum[h] \in Nat /\ running[h] <= sum[h]
  <2> SUFFICES ASSUME NEW h \in Hosts PROVE running[h] <= sum[h]
    BY <1>2, <1>3
  <2>1. Reach(h) \in Nat /\ running[h] <= Reach(h)
    BY ReachNat DEF OInv, IInv
  <2>2. h = c => Reach(h) <= base[h]
    BY <1>1 DEF Deciding
  <2>3. h # c => Reach(h) <= base[h] + StepUp[h]
    BY <1>1 DEF Deciding
  <2> QED BY <1>2, <2>1, <2>2, <2>3
<1>5. SumOver(sum, Hosts) = SumOver(base, Hosts) + SumOver(steps, Hosts)
  <2>1. \A x \in Hosts : base[x] \in Nat /\ steps[x] \in Nat
    BY <1>3
  <2> HIDE DEF steps
  <2> QED BY <1>2, <2>1, SumPlus
<1>6. SumOver(steps, Hosts) = SumOver(StepUp, Hosts) - StepUp[c]
  <2> DEFINE rest == Hosts \ {c}
  <2>1. Hosts = rest \cup {c} /\ rest \in SUBSET Hosts /\ c \in Hosts \ rest /\ IsFiniteSet(rest)
    BY <1>2, FS_Subset
  <2>2. /\ \A x \in Hosts : steps[x] \in Nat /\ StepUp[x] \in Nat
        /\ \A x \in rest : steps[x] = StepUp[x]
        /\ steps[c] = 0
    BY <1>2, <1>3
  <2> HIDE DEF steps, rest
  <2>3. SumOver(steps, rest \cup {c}) = SumOver(steps, rest) + steps[c]
    BY <1>2, <2>1, <2>2, SumAdd
  <2>4. SumOver(StepUp, rest \cup {c}) = SumOver(StepUp, rest) + StepUp[c]
    BY <1>2, <2>1, <2>2, SumAdd
  <2>5. SumOver(steps, rest) \in Nat /\ SumOver(StepUp, rest) \in Nat
    BY <2>1, <2>2, SumOverNat
  <2>6. \A x \in rest : steps[x] \in Nat /\ StepUp[x] \in Nat /\ steps[x] <= StepUp[x] /\ StepUp[x] <= steps[x]
    BY <2>1, <2>2
  <2>7. SumOver(steps, rest) <= SumOver(StepUp, rest)
    BY <2>1, <2>6, SumMonotonic
  <2>8. SumOver(StepUp, rest) <= SumOver(steps, rest)
    BY <2>1, <2>6, SumMonotonic
  <2>9. SumOver(steps, rest \cup {c}) = SumOver(StepUp, rest \cup {c}) - StepUp[c]
    BY <2>2, <2>3, <2>4, <2>5, <2>7, <2>8
  <2> QED BY <2>1, <2>9
<1>7. /\ Total(running) = SumOver(running, Hosts) /\ Total(base) = SumOver(base, Hosts)
      /\ Total(StepUp) = SumOver(StepUp, Hosts)
  BY <1>2 DEF Total
<1> HIDE DEF sum, steps
<1>8. SumOver(running, Hosts) <= SumOver(sum, Hosts)
  BY <1>2, <1>4, SumMonotonic
<1>9. Total(base) <= Fleet.max_workers
  BY <1>1 DEF Deciding
<1>10. /\ SumOver(running, Hosts) \in Nat /\ SumOver(base, Hosts) \in Nat
       /\ SumOver(StepUp, Hosts) \in Nat /\ StepUp[c] \in Nat
  BY <1>2, SumOverNat
<1>11. Total(running) <= Fleet.max_workers + (Total(StepUp) - StepUp[c])
  BY <1>2, <1>5, <1>6, <1>7, <1>8, <1>9, <1>10
<1> QED BY <1>11 DEF OvershootByPeerSteps

(* federation.rs, gate_launch: as long as no cycle fails, whatever exits,  *)
(* crashes, lags, falls short or is not written, and however the gates of  *)
(* any number of hosts interleave, the workers of all hosts exceed the     *)
(* largest account total by at most the launch steps of all hosts but one. *)
THEOREM OvershootIsBounded ==
  ASSUME NoCycleFails
  PROVE  Spec => []OvershootByPeerSteps
<1>1. OInv => OvershootByPeerSteps
  BY DecidedBoundsWorkers
<1> QED BY <1>1, OvershootInit, OvershootNext, PTL DEF Spec
=============================================================================
