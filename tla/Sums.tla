-------------------------------- MODULE Sums --------------------------------
(***************************************************************************)
(* The sum of a function of counts over a finite set: what the code writes *)
(* as iter().map(..).sum() over hosts and peers.                           *)
(***************************************************************************)
EXTENDS Integers, FiniteSets, FiniteSetsExt

SumOver(f, S) == MapThenSumSet(LAMBDA x : f[x], S)
=============================================================================
