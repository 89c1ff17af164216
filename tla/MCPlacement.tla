---------------------------- MODULE MCPlacement -----------------------------
EXTENDS Placement, Integers, Sequences
Host(ceiling, up, down, measured) ==
  [ceiling |-> ceiling, step_up |-> up, step_down |-> down, measured |-> measured]
MCHostConfigs == <<Host(3, 2, 1, TRUE), Host(2, 1, 1, TRUE), Host(1, 1, 2, FALSE)>>
MCFleet == [min_workers |-> 0, max_workers |-> 4,
            max_scale_up_per_cycle |-> 2, max_scale_down_per_cycle |-> 2]

-----------------------------------------------------------------------------
(* The placement history, kept to four targets, over every history of six  *)
(* cycles with three targets.                                              *)
Kept == INSTANCE PlacementHistory WITH MaxPlacements <- 4

TargetRuns == [1 .. 6 -> 0 .. 2]
Recorded(run) ==
  Kept!FoldLeft(LAMBDA placements, target : Kept!record_placement(placements, target), <<>>, run)

(* Two hosts recorded in turn do not mix: each keeps its own newest        *)
(* targets, and a sample leaves them alone.                                *)
ASSUME HistoryIsTheNewest ==
  \A run \in TargetRuns :
    LET states == Kept!FoldLeft(
                    LAMBDA all, i : Kept!record_host(
                                      Kept!record_host_placement(all, 1 + (i % 2), run[i]), 1, run[i]),
                    Kept!NoHostStates, <<1, 2, 3, 4, 5, 6>>)
    IN  /\ Recorded(run) = SubSeq(run, 3, 6)
        /\ states[1].placements = <<run[2], run[4], run[6]>>
        /\ states[2].placements = <<run[1], run[3], run[5]>>
        /\ states[1].sample = {run[6]} /\ states[2].sample = {}

(* state.rs 257: oscillation is found exactly when the last changes of the *)
(* kept history go back and forth between two targets, however many cycles *)
(* each target was held.                                                   *)
ChangesOf(placements) ==
  SelectSeq([i \in DOMAIN placements |-> i],
            LAMBDA i : i = 1 \/ placements[i] # placements[i - 1])
ASSUME AlternationIsExact ==
  \A run \in TargetRuns, minimum \in 0 .. 5 :
    LET kept == Recorded(run)
        at == ChangesOf(kept)
        n == Len(at)
    IN  Kept!placement_alternates_for(kept, minimum) <=>
          /\ minimum \in 2 .. 3 /\ n > minimum
          /\ \A k \in n - minimum + 2 .. n : kept[at[k]] = kept[at[k - 2]]

-----------------------------------------------------------------------------
(***************************************************************************)
(* Facts about the credit warnings over every history of three cycles of   *)
(* two credits, with reset stamps that jitter or change, readings that     *)
(* rise and fall, and cycles that fail after they published.               *)
(***************************************************************************)
Adv == INSTANCE Advisories WITH Safety <- 1, WarnBelow <- 6, PageBelow <- 3, Tolerance <- 1

FirstCredit == [id |-> 1, status |-> "available", expires_at |-> {8}]
SecondCredit == [id |-> 2, status |-> "available", expires_at |-> {9}]
CreditCycles ==
  {[credits |-> c, target |-> 4, used |-> u, resets |-> r, burn |-> b, now |-> 0,
    recorded |-> ok] :
     c \in {{SecondCredit}, {FirstCredit, SecondCredit}}, u \in {0, 3}, r \in {20, 21, 40},
     b \in {0, 1}, ok \in BOOLEAN}
At(cycle, hour) == [cycle EXCEPT !.now = hour]

(* What a cycle leaves: its warnings are out at once, its levels are       *)
(* remembered only if nothing after it failed.                             *)
RememberedAfter(cycle, alerts) == IF cycle.recorded THEN Adv!record_credit_alerts(cycle) ELSE alerts

(* A credit in danger is never silent: its level, or a higher one, was     *)
(* published for it in this cycle or earlier in the same generation.       *)
ASSUME NoWarningLost ==
  \A one, two \in CreditCycles, late \in {c \in CreditCycles : c.recorded} :
    LET three == At(late, 3)
        a1 == RememberedAfter(one, <<>>)
        a2 == RememberedAfter(two, a1)
        said == <<Adv!CreditAdvisories(one, <<>>), Adv!CreditAdvisories(two, a1),
                  Adv!CreditAdvisories(three, a2)>>
        cycles == <<one, two, three>>
        levels == Adv!CreditLevels(three)
    IN  \A id \in DOMAIN levels : levels[id] > 0 =>
          \E k \in 1 .. 3 : /\ Adv!SameResets(cycles[k].resets, three.resets)
                            /\ \E w \in said[k] : w.id = id /\ w.severity >= levels[id]

(* A warning repeats only when the cycle before it failed, was another     *)
(* generation, or found the credit in less danger.                         *)
ASSUME RepeatsOnlyAfterRelief ==
  \A one, two \in CreditCycles : \A id \in {1, 2} :
    LET before == Adv!CreditLevels(one)
        said == Adv!CreditAdvisories(two, RememberedAfter(one, <<>>))
    IN  (\E w \in said : w.id = id) =>
          \/ ~one.recorded \/ ~Adv!SameResets(one.resets, two.resets)
          \/ id \notin DOMAIN before
          \/ before[id] < Adv!CreditLevels(two)[id]

(* A later expiry never looks worse for a credit than an earlier one, and  *)
(* redeeming the first credit never makes the second look worse.           *)
ASSUME LevelsFollowTheCredits ==
  \A cycle \in CreditCycles, hour \in 0 .. 7 :
    LET now == At(cycle, hour)
        alone == Adv!CreditLevels([now EXCEPT !.credits = {SecondCredit}])
        both == Adv!CreditLevels([now EXCEPT !.credits = {FirstCredit, SecondCredit}])
    IN  /\ alone[2] <= both[2]
        /\ alone[2] <= Adv!CreditLevels([now EXCEPT !.credits = {FirstCredit}])[1]
        /\ Adv!DeadlineMissed(now) /\ now.burn > 0 => \E c \in DOMAIN Adv!CreditLevels(now) :
                                                       Adv!CreditLevels(now)[c] = 3
=============================================================================
