---------------------------- MODULE BurnHistory ----------------------------
(***************************************************************************)
(* A provider's window, the file a collector writes about it, a governor   *)
(* that records what it reads, and a dashboard that reads both files.  The *)
(* provider reports whole quanta and reset times that jitter; the quota    *)
(* resets on schedule or early; collections, polls and dashboard reads     *)
(* come in any order.                                                      *)
(***************************************************************************)
EXTENDS Dashboard

CONSTANTS
  Quantum,      \* true units in one reported step
  Burns,        \* true units an account may burn in a tick
  Jitter,       \* deviations of a reported reset time
  Period,       \* ticks from a reset to the announced next one
  MinReset,     \* bound: resets are at least this far apart
  Workers,      \* governed worker counts a poll may find
  Window,       \* burn_rate_window_seconds of the governor's policy
  MaxTime       \* bound: the last tick

ASSUME HistoryAssumption ==
  /\ {Quantum, Period, MinReset, Window, MaxTime} \subseteq Nat \ {0}
  /\ Burns \subseteq Nat /\ Jitter \subseteq Nat /\ Workers \subseteq Nat
  /\ \A i, j \in Jitter : i - j \in -Tolerance .. Tolerance /\ MinReset + i - j > Tolerance

(* A full aggregate history reaches back a baseline even if every reset    *)
(* that fits into a baseline puts two of its samples next to each other:   *)
(* 3072 samples, 60 s and 24 h leave room for a reset every minute.        *)
ASSUME RoomForResets ==
  (MaxSamples - 1) * MinInterval - (MinInterval - 1) * (1 + (Baseline - 1) \div MinReset)
    >= Baseline

VARIABLES
  truth,     \* history: per tick, the units burned so far, the tick in which
             \* its generation began and the units burned before that
  snapshot,  \* the snapshot file
  memory,    \* the window in the governor's state file
  reading    \* the dashboard's time and copy of the state file, while it reads

historyVars == <<truth, snapshot, memory, reading>>

Now == Len(truth)
NotReading == <<>>

Reading(jitter) ==
  [at |-> Now, used |-> (truth[Now].burned - truth[Now].before) \div Quantum,
   resets |-> truth[Now].began + Period + jitter]

HistoryInit ==
  /\ truth = <<[burned |-> 0, began |-> 1, before |-> 0]>>
  /\ snapshot = <<>>
  /\ memory = EmptyMemory
  /\ reading = NotReading

(* Time passes; the window may have been reset, by schedule or by hand.    *)
ProviderCounts ==
  /\ Now < MaxTime
  /\ reading # NotReading => reading[1].now = Now
  /\ LET last == truth[Now]
     IN  \E units \in Burns, reset \in {FALSE} \cup {Now + 1 - last.began >= MinReset} :
           truth' = Append(truth, [burned |-> last.burned + units,
                                   began |-> IF reset THEN Now + 1 ELSE last.began,
                                   before |-> IF reset THEN last.burned ELSE last.before])
  /\ UNCHANGED <<snapshot, memory, reading>>

(* The collector replaces the snapshot file; one collection per tick.      *)
Collect ==
  /\ snapshot # <<>> => snapshot[1].at < Now
  /\ \E jitter \in Jitter : snapshot' = <<Reading(jitter)>>
  /\ UNCHANGED <<truth, memory, reading>>

Sampled(workers) ==
  [at |-> snapshot[1].at, used |-> snapshot[1].used, resets |-> snapshot[1].resets,
   workers |-> workers]

(* A cycle that finds the snapshot fresh records it, however often.        *)
GovernorPolls ==
  /\ snapshot # <<>>
  /\ Now - snapshot[1].at <= StaleAfter
  /\ \E workers \in Workers : memory' = Record(memory, Sampled(workers))
  /\ UNCHANGED <<truth, snapshot, reading>>

(* collect of the dashboard: the clock and the state file, then the rest.  *)
DashboardReadsState ==
  /\ reading = NotReading
  /\ reading' = <<[now |-> Now, memory |-> memory]>>
  /\ UNCHANGED <<truth, snapshot, memory>>

DashboardShows ==
  /\ reading # NotReading
  /\ reading' = NotReading
  /\ UNCHANGED <<truth, snapshot, memory>>

HistoryNext ==
  ProviderCounts \/ Collect \/ GovernorPolls \/ DashboardReadsState \/ DashboardShows

HistorySpec == HistoryInit /\ [][HistoryNext]_historyVars

-----------------------------------------------------------------------------
TrueBurn(from, to) == truth[to].burned - truth[from].burned

(* A measured number of quanta is not more than was burned, but for the    *)
(* part of a quantum that was already there.                               *)
NotMoreThanTrue(burned, from, to) == burned * Quantum < TrueBurn(from, to) + Quantum

(* controller.rs 735: the estimates the next cycle would pace by never     *)
(* exceed what was really burned over their interval, whatever resets,     *)
(* early resets, jitter, repeated and missed polls came before; and the    *)
(* rolling one never spans two generations.                                *)
EstimatesWithinTruth ==
  snapshot # <<>> =>
    LET current == Sampled(1)
        aggregate == MeasuredBurn(BaselineSamples(memory.aggregate, current))
        window == EstimateWindow(memory.aggregate, current, Window, StaleAfter)
    IN  /\ NotMoreThanTrue(aggregate.burned, current.at - aggregate.elapsed, current.at)
        /\ NotMoreThanTrue(window.burned, current.at - window.elapsed, current.at)
        /\ truth[current.at - window.elapsed].began = truth[current.at].began

(* The rate on the dashboard is the account's own: measured within one     *)
(* generation and off by less than a quantum either way, although the two  *)
(* files it is made of are read at different moments.                      *)
ShownRateIsTrue ==
  reading # NotReading =>
    \A file \in {snapshot, <<>>} :
      LET card == WindowCard(reading[1].memory, file, reading[1].now)
      IN  card # NoMeasure =>
            /\ truth[card.base].began = truth[card.at].began
            /\ NotMoreThanTrue(card.burned, card.base, card.at)
            /\ TrueBurn(card.base, card.at) < (card.burned + 1) * Quantum

(* state.rs 50: a full aggregate history reaches back a whole baseline,    *)
(* so a governor that has run that long has an estimate to pace by.  Only  *)
(* reset times that jitter from poll to poll, which the code takes for     *)
(* changes of the generation, can crowd the baseline out.                  *)
BaselineKept ==
  LET samples == memory.aggregate
  IN  Len(samples) = MaxSamples /\ Last(samples).at - samples[1].at < Baseline =>
        \E i \in 1 .. Len(samples) - 1 :
          /\ samples[i].resets # samples[i + 1].resets
          /\ SameGeneration(samples[i].resets, samples[i + 1].resets)
=============================================================================
