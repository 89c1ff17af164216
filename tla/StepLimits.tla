----------------------------- MODULE StepLimits -----------------------------
(***************************************************************************)
(* Worker counts and the arithmetic the governor applies to them.  Counts  *)
(* are u32 in the code and only ever meet saturating operations, so they   *)
(* are naturals here.                                                      *)
(*                                                                         *)
(* A fleet is a record with the fields of FleetConfig that bound a         *)
(* decision: min_workers <= max_workers, and the two per-cycle steps.      *)
(***************************************************************************)
EXTENDS Integers

(* A count or a headroom that nobody reported: None in the code.           *)
Unknown == -1

Fleets == { f \in [min_workers : Nat, max_workers : Nat,
                   max_scale_up_per_cycle : Nat,
                   max_scale_down_per_cycle : Nat] :
              f.min_workers <= f.max_workers }

Min2(a, b) == IF a <= b THEN a ELSE b
Max2(a, b) == IF a >= b THEN a ELSE b

SaturatingSub(a, b) == IF a >= b THEN a - b ELSE 0

Clamp(n, low, high) == Max2(low, Min2(n, high))

(* apply_step_limits: one bounded step from current toward desired, kept   *)
(* inside the fleet range even when current lies outside it.               *)
ApplyStepLimits(desired, current, fleet) ==
  LET bounded == Clamp(desired, fleet.min_workers, fleet.max_workers)
      stepped == IF bounded > current
                 THEN Min2(bounded, current + fleet.max_scale_up_per_cycle)
                 ELSE Max2(bounded, SaturatingSub(current, fleet.max_scale_down_per_cycle))
  IN  Clamp(stepped, fleet.min_workers, fleet.max_workers)
=============================================================================
