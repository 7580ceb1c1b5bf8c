SPECIFICATION FairSpec
CONSTANTS
    Calls = {c1, c2, c3, c4}
    Kept = {c1, c2}
    Capacity = 2
INVARIANTS
    TypeOK
    PermitsFollowWork
    CallerOutlivesWork
PROPERTIES
    ImplementsPermitPool
    CallersLeave
