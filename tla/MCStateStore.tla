---------------------------- MODULE MCStateStore ----------------------------
EXTENDS StateStore, TLC

PidSymmetry == Permutations(Pids)
=============================================================================
