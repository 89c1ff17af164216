-------------------------- MODULE PlacementHistory --------------------------
(***************************************************************************)
(* What the state keeps per host of an account: the placement targets of   *)
(* the last cycles and whether they alternate, and the host's own samples. *)
(* No variables.                                                           *)
(***************************************************************************)
EXTENDS Integers, SequencesExt

CONSTANTS
  MaxPlacements    \* MAX_PLACEMENT_HISTORY_SAMPLES

NoHostState == [placements |-> <<>>, sample |-> {}]
NoHostStates == [key \in {} |-> NoHostState]
HostState(states, key) == IF key \in DOMAIN states THEN states[key] ELSE NoHostState
WithHost(states, key, state) ==
  [k \in DOMAIN states \cup {key} |-> IF k = key THEN state ELSE states[k]]

(* The newest targets, oldest first.                                       *)
record_placement(placements, target) ==
  LET all == Append(placements, target)
  IN  SubSeq(all, Max({1, Len(all) - MaxPlacements + 1}), Len(all))

record_host_placement(states, key, target) ==
  WithHost(states, key, [HostState(states, key) EXCEPT !.placements = record_placement(@, target)])

(* Only the newest sample is kept here; Estimators has the histories.      *)
record_host(states, key, sample) ==
  WithHost(states, key, [HostState(states, key) EXCEPT !.sample = {sample}])

(* The loop over the history from its newest end: the targets where it     *)
(* changes, until enough of them are found.                                *)
RecentChanges(placements, needed) ==
  FoldRight(LAMBDA target, found :
              IF Len(found) = needed \/ (found # <<>> /\ Head(found) = target) THEN found
              ELSE <<target>> \o found,
            placements, <<>>)

placement_alternates_for(placements, minimum_changes) ==
  LET changes == RecentChanges(placements, minimum_changes + 1)
  IN  /\ minimum_changes \in 2 .. MaxPlacements - 1
      /\ minimum_changes < Len(placements)
      /\ Len(changes) = minimum_changes + 1
      /\ changes[1] # changes[2]
      /\ \A i \in DOMAIN changes : changes[i] = IF i % 2 = 1 THEN changes[1] ELSE changes[2]
=============================================================================
