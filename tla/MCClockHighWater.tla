-------------------------- MODULE MCClockHighWater --------------------------
\* ClockHighWater for TLC.
EXTENDS ClockHighWater, TLC

Symmetry == Permutations(Observers)
=============================================================================
