SPECIFICATION Spec
CONSTANTS
    Observers = {o1}
    NoOne = NoOne
    HealthyWindow = 2
    MaxSlew = 1
    MaxUtc = 2
    MaxMonotonic = 3
    MaxBoot = 1
    MaxFaults = 3
INVARIANTS
    HonestMonotonic
PROPERTIES
    EvidenceKept
