---- MODULE MCSaturation ----
EXTENDS Saturation
MCFleet == [min_workers |-> 0, max_workers |-> 3,
            max_scale_up_per_cycle |-> 1, max_scale_down_per_cycle |-> 1]
(* The policy of the run is one that Config::validate accepts.             *)
Cfg == INSTANCE Config WITH
         Lower <- {}, Upper <- {}, Digit <- {}, Unit <- Unit, MaxSeconds <- 9, Home <- <<>>
ASSUME PolicyIsAccepted ==
  \A window \in Windows :
    Cfg!ValidSaturation(
      [step_workers |-> Step, minimum_attempts |-> 1, dwell_seconds |-> Dwell,
       minimum_window_seconds |-> window, reprobe_seconds |-> Reprobe,
       plateau_fraction |-> Plateau, concurrency_fraction |-> 0])
MCBacklogs == {None, 1, 3}
====
