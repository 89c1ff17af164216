----------------------------- MODULE PeerPolicy -----------------------------
(***************************************************************************)
(* What federation promises about silent peers, without records, clocks,   *)
(* totals or splits: a peer goes from fresh to stale and from stale to     *)
(* expired while it is not heard, is fresh again when it is, and is stale  *)
(* after a restart; and a host adds workers only while none of its peers   *)
(* is stale.  Federation implements this.                                  *)
(***************************************************************************)
EXTENDS Naturals

CONSTANT Hosts

VARIABLES
  view,    \* view[h][p]: what h knows of p: "fresh", "stale" or "expired"
  workers  \* the workers of each host

policyVars == <<view, workers>>

Peers(h) == Hosts \ {h}
Later(state) == IF state = "fresh" THEN "stale" ELSE "expired"

Init ==
  /\ view = [h \in Hosts |-> [p \in Peers(h) |-> "stale"]]
  /\ workers \in [Hosts -> Nat]

Heard(h, answered) ==
  /\ view' = [view EXCEPT ![h] = [p \in Peers(h) |-> IF p \in answered THEN "fresh" ELSE @[p]]]
  /\ UNCHANGED workers

Ages ==
  /\ view' \in [Hosts -> UNION {[Peers(h) -> {"fresh", "stale", "expired"}] : h \in Hosts}]
  /\ \A h \in Hosts : /\ DOMAIN view'[h] = Peers(h)
                      /\ \A p \in Peers(h) : view'[h][p] \in {view[h][p], Later(view[h][p])}
  /\ UNCHANGED workers

Restarts(h) ==
  /\ view' = [view EXCEPT ![h] = [p \in Peers(h) |-> "stale"]]
  /\ UNCHANGED workers

Scales(h) ==
  /\ workers' \in [Hosts -> Nat]
  /\ \A g \in Hosts \ {h} : workers'[g] = workers[g]
  /\ workers'[h] > workers[h] => \A p \in Peers(h) : view[h][p] # "stale"
  /\ UNCHANGED view

Next ==
  \/ Ages
  \/ \E h \in Hosts : Restarts(h) \/ Scales(h) \/ \E answered \in SUBSET Peers(h) : Heard(h, answered)

Spec == Init /\ [][Next]_policyVars
=============================================================================
