SPECIFICATION FairSpec
CONSTANTS
    Attempts = {a1, a2, a3}
    Capacity = 2
    FailureThreshold = 2
    BaseOpen = 1
    MaxOpen = 3
    JitterPercent = 50
    MaxGeneration = 6
INVARIANTS
    TypeOK
    PermitAccounting
    ProbeOwnsHalfOpen
    OpenLeavesRoom
PROPERTIES
    OnlyTheProbeSettles
    BackoffKept
    ImplementsPermitPool
    HalfOpenSettles
    OpenBecomesAdmissible
