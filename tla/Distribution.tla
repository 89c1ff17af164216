---------------------------- MODULE Distribution ----------------------------
(***************************************************************************)
(* How a worker total is divided over hosts: placement::distribute, the    *)
(* weighted split with its largest-remainder fill, and its two users,      *)
(* placement::place (one governor, several hosts) and                      *)
(* federation::split_account_total (one share per governor).               *)
(*                                                                         *)
(* Hosts are natural numbers: the code orders host ids as strings and only *)
(* the order matters.  A headroom is a number of units of 1/unit, so a     *)
(* fraction of the code is headroom/unit; a worker headroom has unit 1.    *)
(* Quotients are exact here.  The one place where f64 rounding can be seen *)
(* is a share that is exactly integral: the product of a rounded weight    *)
(* may fall just below it.  `short` is the set of hosts where it does.     *)
(***************************************************************************)
EXTENDS StepLimits, Sums, FiniteSets

(* floor_share of the weight headroom/total: a zero total gives NaN        *)
(* weights and no share.                                                   *)
FloorShare(budget, share, total, isShort) ==
  IF total = 0 \/ budget * share = 0 THEN 0
  ELSE IF isShort /\ (budget * share) % total = 0
       THEN (budget * share) \div total - 1
       ELSE (budget * share) \div total

(* The floored shares, each capped; hosts that are not eligible get none.  *)
Floors(budget, eligible, headroom, cap, short) ==
  LET total == SumOver(headroom, eligible)
  IN  [h \in DOMAIN headroom |->
         IF h \in eligible
         THEN Min2(FloorShare(budget, headroom[h], total, h \in short), cap[h])
         ELSE 0]

(* score(i) > score(j) for score = headroom - placed/cap, without division. *)
Outscores(i, j, placed, headroom, cap, unit) ==
  (headroom[i] * cap[i] - unit * placed[i]) * cap[j]
    > (headroom[j] * cap[j] - unit * placed[j]) * cap[i]

(* The eligible host below its cap with the best score, the smallest host  *)
(* on a tie.                                                               *)
Winner(open, placed, headroom, cap, unit) ==
  CHOOSE i \in open :
    \A j \in open \ {i} :
      \/ Outscores(i, j, placed, headroom, cap, unit)
      \/ i < j /\ ~Outscores(j, i, placed, headroom, cap, unit)

FloorsOnly(budget, eligible, headroom, cap, unit, short) ==  \* variant: no largest-remainder fill
  Floors(budget, eligible, headroom, cap, short)

(* distribute: floors first, then the shortfall, one worker a turn, until  *)
(* the budget is placed or every eligible host is at its cap.              *)
Distribute(budget, eligible, headroom, cap, unit, short) ==
  LET fill[placed \in [DOMAIN headroom -> Nat]] ==
        LET open == {h \in eligible : placed[h] < cap[h]}
        IN  IF SumOver(placed, DOMAIN placed) < budget /\ open # {}
            THEN fill[[placed EXCEPT ![Winner(open, placed, headroom, cap, unit)] = @ + 1]]
            ELSE placed
  IN  fill[Floors(budget, eligible, headroom, cap, short)]

-----------------------------------------------------------------------------
(* placement::apply_step_limit, for one host.                              *)
HostStep(desired, current, host) ==
  LET bounded == Min2(desired, host.ceiling)
      stepped == IF bounded > current
                 THEN Min2(bounded, current + host.step_up)
                 ELSE IF bounded >= SaturatingSub(current, host.step_down)
                      THEN bounded ELSE SaturatingSub(current, host.step_down)
  IN  Min2(stepped, host.ceiling)

(* A host may receive workers when its resources are known and some are    *)
(* free.  A host without a resource_source always has all of unit free;    *)
(* an unread, stale or foreign snapshot is "unknown".                      *)
Headroom(resources) == [h \in DOMAIN resources |-> IF resources[h] = Unknown THEN 0 ELSE resources[h]]
Eligible(resources) == {h \in DOMAIN resources : resources[h] # Unknown /\ resources[h] > 0}

DrainUnknown(target, current, hosts, h) ==  \* variant: stale data drains a host
  HostStep(0, current[h], hosts[h])

(* What a host that may not receive workers keeps: everything while the    *)
(* target covers the fleet, otherwise it steps towards zero.               *)
IneligibleTarget(target, current, hosts, h) ==
  HostStep(IF target >= SumOver(current, DOMAIN current) THEN current[h] ELSE 0,
           current[h], hosts[h])

PlaceUnreserved(target, current, resources, hosts, unit, short) ==  \* variant: the whole
  LET eligible == Eligible(resources)                              \* target is distributed
      spread == Distribute(target, eligible, Headroom(resources),
                           [h \in DOMAIN hosts |-> hosts[h].ceiling], unit, short)
  IN  [h \in DOMAIN hosts |->
         IF h \in eligible THEN HostStep(spread[h], current[h], hosts[h])
                          ELSE IneligibleTarget(target, current, hosts, h)]

(* place: hold everything when nobody is eligible; otherwise reserve what  *)
(* the others keep and distribute the rest; then every host's own step.    *)
Place(target, current, resources, hosts, unit, short) ==
  LET eligible == Eligible(resources)
      kept == [h \in DOMAIN hosts |-> IF h \in eligible THEN 0
                                      ELSE IneligibleTarget(target, current, hosts, h)]
      budget == SaturatingSub(target, SumOver(kept, DOMAIN kept))
      spread == Distribute(budget, eligible, Headroom(resources),
                           [h \in DOMAIN hosts |-> hosts[h].ceiling], unit, short)
      raw == IF eligible = {} THEN current
             ELSE [h \in DOMAIN hosts |-> IF h \in eligible THEN spread[h] ELSE kept[h]]
  IN  [h \in DOMAIN hosts |-> HostStep(raw[h], current[h], hosts[h])]

-----------------------------------------------------------------------------
CeilingCap(host) == host.ceiling  \* variant: the demand does not cap a share

(* split_account_total over FederationHost entries [workers, ceiling,      *)
(* demand].  A total that covers what runs only hands out the surplus, to  *)
(* hosts with both ceiling and demand left; a smaller one is divided anew  *)
(* among the hosts with demand.                                            *)
ShareCap(host) == Min2(host.ceiling, host.workers + host.demand)

SplitOnTop(total, hosts, short) ==  \* variant: a growing total is handed out on top
  LET workers == [h \in DOMAIN hosts |-> hosts[h].workers]
      cap == [h \in DOMAIN hosts |-> SaturatingSub(ShareCap(hosts[h]), hosts[h].workers)]
      spread == Distribute(total, {h \in DOMAIN hosts : cap[h] > 0},
                           [h \in DOMAIN hosts |-> SaturatingSub(hosts[h].ceiling, workers[h])],
                           cap, 1, short)
  IN  [h \in DOMAIN hosts |-> workers[h] + spread[h]]

SplitTotal(total, hosts, short) ==
  LET workers == [h \in DOMAIN hosts |-> hosts[h].workers]
      running == SumOver(workers, DOMAIN workers)
      headroom == [h \in DOMAIN hosts |-> SaturatingSub(hosts[h].ceiling, hosts[h].workers)]
      grows == total >= running
      cap == [h \in DOMAIN hosts |->
                IF grows THEN SaturatingSub(ShareCap(hosts[h]), hosts[h].workers)
                         ELSE ShareCap(hosts[h])]
      eligible == {h \in DOMAIN hosts : IF grows THEN cap[h] > 0 ELSE hosts[h].demand > 0}
      spread == Distribute(IF grows THEN total - running ELSE total,
                           eligible, headroom, cap, 1, short)
  IN  [h \in DOMAIN hosts |-> (IF grows THEN hosts[h].workers ELSE 0) + spread[h]]

=============================================================================
