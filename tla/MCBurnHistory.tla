--------------------------- MODULE MCBurnHistory ---------------------------
(***************************************************************************)
(* Facts of the run loop over every history of three cycles, with cycles   *)
(* that end at once, just in time, and one or two intervals late; and of   *)
(* the preflight, which runs before any loop is started.                   *)
(***************************************************************************)
EXTENDS BurnHistory, Integers, Sequences, TLC

Loop == INSTANCE RunLoop WITH Slice <- 2, JitterCap <- 3

PollInterval == 20
LongestJitter == Loop!max_bounded_jitter(PollInterval)
CycleLengths == {0, 7, 18, 20, 25, 47}
Oversleeps == {0, 1, 30}

(* What a turn may lead to: the work it does, the jitter it draws, and    *)
(* what the host adds to the sleep.                                        *)
TurnsFrom(turn, oversleeps) ==
  {[after |-> Loop!NextTurn(turn, PollInterval, work, jitter, over),
    work |-> work, over |-> over] :
     work \in CycleLengths, jitter \in Loop!bounded_jitter(PollInterval), over \in oversleeps}

(* No drift (main.rs 1080): cycles that fit into the interval start at     *)
(* whole intervals, give or take one jitter, for ever.                     *)
ASSUME NoDrift ==
  \A a \in TurnsFrom(Loop!FirstTurn, {0}) :
  \A b \in TurnsFrom(a.after, {0}) : \A c \in TurnsFrom(b.after, {0}) :
    a.work < 18 /\ b.work < 18 /\ c.work < 18 =>
      c.after.started \in 3 * PollInterval .. 3 * PollInterval + LongestJitter

(* No burst (main.rs 1083): after a slow cycle the next starts at once but *)
(* no two starts are closer than an interval less one jitter.              *)
ASSUME NoBurst ==
  \A a \in TurnsFrom(Loop!FirstTurn, {0}) :
  \A b \in TurnsFrom(a.after, {0}) : \A c \in TurnsFrom(b.after, {0}) :
    /\ b.after.started - a.after.started >= PollInterval - LongestJitter
    /\ c.after.started - b.after.started >= PollInterval - LongestJitter

(* The late and skipped metrics see a host that resumes a sleep late and   *)
(* nothing else: the schedule they compare with is moved to now before     *)
(* they look, so a cycle that overran several intervals is never reported. *)
ASSUME OnlyOversleepIsLate ==
  \A a \in TurnsFrom(Loop!FirstTurn, {0}) : \A b \in TurnsFrom(a.after, Oversleeps) :
    LET reported == Loop!Reported(b.after, PollInterval) IN
    /\ b.over = 0 => reported = [late |-> FALSE, skipped |-> 0]
    /\ b.over > LongestJitter => reported.late
    /\ reported.skipped = (b.after.started - b.after.anchor) \div PollInterval

(* A signal ends the sleep within one slice, whenever it arrives.          *)
ASSUME SignalEndsSleep ==
  \A t \in 0 .. 3, duration \in 0 .. 9, raised \in 0 .. 14 :
    LET woke == Loop!interruptible_sleep(t, duration, {raised}) IN
    /\ woke \in t .. t + duration
    /\ woke <= Loop!Max({t, raised}) + 2 \/ raised > t + duration

-----------------------------------------------------------------------------
WindowsOfTwo ==
  [1 .. 2 -> {[id |-> i, reason |-> r, desired_workers |-> d] :
                i \in {"weekly", "short"}, r \in {"pacing", "target_reached"}, d \in 0 .. 1}]
DecisionsSeen ==
  [stale : BOOLEAN, manual_redemption_recommended : BOOLEAN, desired_workers : 0 .. 1,
   binding_window : {{}, {"weekly"}, {"short"}}, windows : WindowsOfTwo]
EndsSeen ==
  {[kind |-> "decided", decision |-> d] : d \in DecisionsSeen} \cup
  {[kind |-> "observation"], [kind |-> "actuation"]}

(* One end of each readiness.                                              *)
SomeEnds ==
  {CHOOSE e \in EndsSeen : Loop!StatusOf(e).state = s :
     s \in {Loop!StatusOf(e).state : e \in EndsSeen}}

(* An account's line is what its last cycle ended with, also across cycles *)
(* that leave it out and an unreadable file, and run --once succeeds only  *)
(* when no line of its cycle is a failure.                                 *)
Failures == {"provider_failure", "actuation_failure"}
ASSUME StatusIsLastCycle ==
  \A before \in [{"a", "b"} -> SomeEnds], now \in [{"b"} -> SomeEnds] :
    LET Lines(ends) == [a \in DOMAIN ends |-> Loop!StatusOf(ends[a])]
        first == Loop!merge_status_report({}, Lines(before))
        second == Loop!merge_status_report({first}, Lines(now))
        shown == Loop!status({"a", "b", "c"}, {second})
    IN  /\ shown["a"] = Loop!StatusOf(before["a"])
        /\ shown["b"] = Loop!StatusOf(now["b"])
        /\ shown["c"].state = "unknown"
        /\ Loop!exit_code(Loop!OnceResult(now, TRUE)) = 0 <=> shown["b"].state \notin Failures

(* A decision from stale data never reads as learning or as a hold, and    *)
(* one that waits for the operator never reads as learning.                *)
ASSUME ReadinessIsHonest ==
  \A d \in DecisionsSeen :
    LET line == Loop!readiness_for_decision(d) IN
    /\ d.stale <=> line.state = "stale_drain"
    /\ ~d.stale /\ d.manual_redemption_recommended => line.state = "intentional_hold"

(* doctor fails exactly when some adapter that an actuation would use is   *)
(* not ready; an account with hosts uses its hosts' adapters only.         *)
AdapterChoices == {{}, {"x"}, {"y"}}
DoctorAccounts ==
  [adapter : AdapterChoices, hosts : {{}} \cup {{hs} : hs \in SUBSET [adapter : AdapterChoices]}]
ASSUME DoctorIsExact ==
  \A a, b \in DoctorAccounts, ready \in SUBSET {"x", "y"} :
    (Loop!doctor({a, b}, ready) = "doctor") <=>
      \E c \in {a, b}, adapter \in {"x", "y"} \ ready :
        \/ c.hosts = {} /\ adapter \in c.adapter
        \/ \E hs \in c.hosts : \E h \in hs : adapter \in h.adapter

-----------------------------------------------------------------------------
(* Every inventory of two controllers whose identities differ in case and  *)
(* in blanks, in any mode.                                                 *)
Inv == INSTANCE Inventory WITH
         Blank <- {" "},
         LowerOf <- "x" :> "x" @@ "X" :> "x" @@ "y" :> "y" @@ " " :> " " @@ "1" :> "1" @@ "2" :> "2"

ControllerAs(name, account, fleet, mode, actuator) ==
  [name |-> name, host |-> <<"1">>, account_id |-> account, fleet_id |-> fleet, mode |-> mode,
   actuator |-> actuator, evidence |-> <<"1">>]
Controllers(name) ==
  {ControllerAs(name, a, f, m, {<<"1">>}) :
     a, f \in {<<"x">>, <<"X">>, <<"y">>, <<"x", " ">>}, m \in {"actuating", "observe_only", "disabled", "unknown"}}
InventoryOf(controllers) == [version |-> 1, observed_at |-> <<"1">>, controllers |-> controllers]

(* preflight.rs 3: an inventory passes only if no account and no fleet has *)
(* two writers, whatever case the files use; a blank in an identity, which *)
(* would make one account look like two, is refused.                       *)
Writes(c, account, fleet) ==
  c.mode = "actuating" /\ (c.account_id[1] \in account \/ c.fleet_id[1] \in fleet)
ASSUME PassHasOneWriter ==
  \A one \in Controllers(<<"1">>), two \in Controllers(<<"2">>) :
    Inv!Passes(InventoryOf(<<one, two>>)) =>
      \A same \in {{"x", "X"}, {"y"}} :
        /\ ~(Writes(one, same, {}) /\ Writes(two, same, {}))
        /\ ~(Writes(one, {}, same) /\ Writes(two, {}, same))

(* A hand-over one mode at a time passes at every step exactly when the    *)
(* old controller stops before the new one starts.                         *)
ASSUME StopBeforeStart ==
  \A account, fleet \in {<<"x">>, <<"y">>} :
    LET old(mode) == ControllerAs(<<"1">>, account, fleet, mode, {<<"1">>})
        new(mode) == ControllerAs(<<"2">>, account, fleet, mode, {<<"1">>})
        passes(a, b) == Inv!Passes(InventoryOf(<<old(a), new(b)>>))
    IN  /\ passes("actuating", "disabled") /\ passes("disabled", "disabled")
        /\ passes("disabled", "actuating") /\ passes("actuating", "observe_only")
        /\ ~passes("actuating", "actuating")

(* An unresolved record fails the check instead of being left out of it.   *)
ASSUME UnknownFailsClosed ==
  \A one \in Controllers(<<"1">>), two \in Controllers(<<"2">>) :
    "unknown" \in {one.mode, two.mode} => ~Inv!Passes(InventoryOf(<<one, two>>))
=============================================================================
