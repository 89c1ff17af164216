----------------------------- MODULE Advisories -----------------------------
(***************************************************************************)
(* Banked-reset credits that may expire unused: what each one needs, how   *)
(* much slack is left at the measured rate, and which warnings a cycle     *)
(* publishes given the levels the state remembers.  Usage is counted in    *)
(* parts, time in hours, and a severity by its rank: 0 clear, 1 warn,      *)
(* 2 page, 3 infeasible.  No variables.                                    *)
(***************************************************************************)
EXTENDS Integers, SequencesExt

CONSTANTS
  Safety,              \* deadline_safety_seconds
  WarnBelow, PageBelow,\* the slack, in hours, below which a severity begins
  Tolerance            \* RESET_GENERATION_JITTER_TOLERANCE_SECONDS

SameResets(a, b) == a - b \in -Tolerance .. Tolerance

(* The available credits with a known expiry, in the order they expire.    *)
Expires(credit) == CHOOSE t \in credit.expires_at : TRUE
known_credits(credits) ==
  SetToSortSeq({c \in credits : c.status = "available" /\ c.expires_at # {}},
               LAMBDA a, b : \/ Expires(a) < Expires(b)
                             \/ Expires(a) = Expires(b) /\ a.id < b.id)

(* The k-th credit needs the rest of this window and k - 1 whole ones.     *)
Need(target, used, k) == Max({target - used, 0}) + (k - 1) * target

(* slack = hours - Safety - need / burn, compared after multiplying by the *)
(* measured rate; there is no slack to speak of without a rate.            *)
advisory_severity(hours, need, burn) ==
  LET slack == (hours - Safety) * burn - need
  IN  IF burn = 0 THEN 0
      ELSE IF slack < 0 THEN 3
      ELSE IF slack < PageBelow * burn THEN 2
      ELSE IF slack < WarnBelow * burn THEN 1 ELSE 0

(* cycle: the credits, the governing window's target, use and reset, the   *)
(* measured rate and the time.                                             *)
CreditLevels(cycle) ==
  LET known == known_credits(cycle.credits)
  IN  [id \in {c.id : c \in Range(known)} |->
         LET k == CHOOSE i \in DOMAIN known : known[i].id = id
         IN  advisory_severity(Expires(known[k]) - cycle.now,
                               Need(cycle.target, cycle.used, k), cycle.burn)]

DeadlineMissed(cycle) ==
  LET known == known_credits(cycle.credits)
  IN  \E k \in DOMAIN known :
        /\ Expires(known[k]) - cycle.now <= Safety
        /\ Need(cycle.target, cycle.used, k) > 0

(* alerts: the remembered level of each credit and the reset it is of.     *)
RankBefore(alerts, id, resets) ==
  IF id \in DOMAIN alerts /\ SameResets(alerts[id].resets, resets)
  THEN alerts[id].severity ELSE 0

CreditAdvisories(cycle, alerts) ==
  LET levels == CreditLevels(cycle)
  IN  {[id |-> id, severity |-> levels[id]] :
         id \in {i \in DOMAIN levels : levels[i] > RankBefore(alerts, i, cycle.resets)}}

(* The levels replace what was remembered, for every credit of the cycle;  *)
(* a cycle without credits forgets them all.                               *)
record_credit_alerts(cycle) ==
  LET levels == CreditLevels(cycle)
  IN  [id \in DOMAIN levels |-> [resets |-> cycle.resets, severity |-> levels[id]]]
=============================================================================
