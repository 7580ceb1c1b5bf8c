SPECIFICATION Spec
CONSTANTS
    Observers = {o1, o2}
    NoOne = NoOne
    HealthyWindow = 2
    MaxSlew = 0
    MaxUtc = 1
    MaxMonotonic = 3
    MaxBoot = 1
    MaxFaults = 1
SYMMETRY Symmetry
INVARIANTS
    TypeOK
    TrustEarned
    RecordAcceptable
