---------------------------- MODULE MCLaunchGate ----------------------------
EXTENDS LaunchGate, TLC

CONSTANTS MaxWorkers, MaxStepUp

MCFleet == [min_workers |-> 0, max_workers |-> MaxWorkers,
            max_scale_up_per_cycle |-> MaxStepUp, max_scale_down_per_cycle |-> 1]
MCStepUp == [h \in Hosts |-> MaxStepUp]
MCRawTargets == {0, MaxWorkers}
MCFullTarget == {MaxWorkers}

HostSymmetry == Permutations(Hosts)
=============================================================================
