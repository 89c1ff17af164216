------------------------------ MODULE RunLoop ------------------------------
(***************************************************************************)
(* The run loop around the cycles: when the next cycle starts, what it     *)
(* reports about its own lateness, how it stops on a signal, what it       *)
(* leaves in the status file, and what the process returns.  Times are     *)
(* ticks of the monotonic clock.  No variables.                            *)
(***************************************************************************)
EXTENDS Integers, FiniteSetsExt, Functions

CONSTANTS
  Slice,      \* STEP of interruptible_sleep
  JitterCap   \* thirty seconds

-----------------------------------------------------------------------------
(* The schedule.                                                           *)
Saturating(a, b) == IF a > b THEN a - b ELSE 0

max_bounded_jitter(interval) == Min({interval \div 10, JitterCap})
bounded_jitter(interval) == 0 .. max_bounded_jitter(interval)

(* The anchor moves by whole intervals, and to now after an overrun.       *)
advance_schedule(anchor, interval, now) ==
  IF anchor + interval > now
  THEN [anchor |-> anchor + interval, sleep |-> anchor + interval - now]
  ELSE [anchor |-> now, sleep |-> 0]

(* scheduled: the set of the scheduled start, empty for the first cycle.   *)
schedule_drift(scheduled, started, interval) ==
  LET drift == Saturating(started, CHOOSE t \in scheduled : TRUE)
  IN  IF interval = 0 \/ scheduled = {} THEN [late |-> FALSE, skipped |-> 0]
      ELSE [late |-> drift > max_bounded_jitter(interval), skipped |-> drift \div interval]

(* When a sleep that begins at t returns, with the flag set at the times   *)
(* from raised on: the flag is read before each slice.                     *)
interruptible_sleep(t, duration, raised) ==
  LET looks == {t + k * Slice : k \in 0 .. (duration - 1) \div Slice}
      seen == {look \in looks : \E r \in raised : r <= look}
  IN  IF duration = 0 \/ seen = {} THEN t + duration ELSE Min(seen)

(* One turn of the loop: the cycle works, then sleeps; the host may resume *)
(* it late.                                                                *)
FirstTurn == [anchor |-> 0, scheduled |-> {}, started |-> 0]
NextTurn(turn, interval, work, jitter, oversleep) ==
  LET now == turn.started + work
      next == advance_schedule(turn.anchor, interval, now)
  IN  [anchor |-> next.anchor, scheduled |-> {next.anchor},
       started |-> interruptible_sleep(now, next.sleep + jitter, {}) + oversleep]
Reported(turn, interval) == schedule_drift(turn.scheduled, turn.started, interval)

-----------------------------------------------------------------------------
(* What an account's cycle leaves in the status file.  A decision carries  *)
(* its windows in order, each with an id, a reason and a target.           *)
Readiness(state, reason) == [state |-> state, reason |-> reason]

FirstWith(windows, P(_)) ==
  LET hits == {i \in DOMAIN windows : P(windows[i])}
  IN  IF hits = {} THEN {} ELSE {windows[Min(hits)]}

(* The window that explains the decision: the binding one, or the first    *)
(* with the decided target.                                                *)
Explaining(decision) ==
  LET named == FirstWith(decision.windows, LAMBDA w : w.id \in decision.binding_window)
  IN  IF named # {} THEN named
      ELSE FirstWith(decision.windows, LAMBDA w : w.desired_workers = decision.desired_workers)

readiness_for_decision(decision) ==
  IF decision.stale THEN Readiness("stale_drain", "stale_data_holding")
  ELSE IF \/ \E w \in Range(decision.windows) : w.reason = "target_reached"
          \/ decision.manual_redemption_recommended
       THEN Readiness("intentional_hold", "target_reached")
  ELSE LET why == Explaining(decision)
       IN  Readiness("healthy_learning",
                     IF why = {} THEN "healthy" ELSE (CHOOSE w \in why : TRUE).reason)

readiness_for_failure(kind) ==
  CASE kind = "observation" -> Readiness("provider_failure", "source_or_observer_error")
    [] kind = "actuation" -> Readiness("actuation_failure", "actuator_error")

(* What one account's cycle ended with.                                    *)
StatusOf(end) ==
  IF end.kind = "decided" THEN readiness_for_decision(end.decision)
  ELSE readiness_for_failure(end.kind)

(* The file is a function from account names; an unreadable or missing one *)
(* starts empty.  An account without a cycle keeps its line.               *)
merge_status_report(recorded, updates) ==
  LET kept == UNION {DOMAIN f : f \in recorded}
  IN  [a \in kept \cup DOMAIN updates |->
         IF a \in DOMAIN updates THEN updates[a]
         ELSE (CHOOSE f \in recorded : TRUE)[a]]

(* status: one line per configured account, whatever else is recorded.     *)
status(accounts, recorded) ==
  [a \in accounts |->
     IF \E f \in recorded : a \in DOMAIN f
     THEN (CHOOSE f \in recorded : TRUE)[a]
     ELSE Readiness("unknown", "no cycle has completed yet")]

-----------------------------------------------------------------------------
(* The process's exit code, 0 when nothing failed.                         *)
exit_code(error) ==
  CASE error = "none" -> 0 [] error = "cli_or_config" -> 2 [] error = "state" -> 3
    [] error = "source" -> 4 [] error = "actuation" -> 5 [] error = "doctor" -> 6

(* run --once: ends, the accounts' ends, and whether each save succeeded.  *)
OnceResult(ends, saved) ==
  IF ~saved THEN "state"
  ELSE IF \E a \in DOMAIN ends : ends[a].kind = "actuation" THEN "actuation"
  ELSE IF \E a \in DOMAIN ends : ends[a].kind = "observation" THEN "source" ELSE "none"

(* doctor: the adapters of the NEEDLE actuators, per host where an account *)
(* has a hosts block; ready: the adapters whose probe exits 0.             *)
DoctorTargets(accounts) ==
  UNION {IF a.hosts = {} THEN a.adapter
         ELSE UNION {h.adapter : h \in UNION a.hosts} : a \in accounts}
doctor(accounts, ready) ==
  IF DoctorTargets(accounts) \subseteq ready THEN "none" ELSE "doctor"
=============================================================================
