SPECIFICATION FairSpec
CONSTANTS
    Requests = {r1, r2, r3}
    Principals = {alice, bob}
    Anonymous = Anonymous
    Unknown = Unknown
    GlobalLimit = 2
    PrincipalLimit = 1
    WorstCase = 2
    ByteLimit = 3
\* A server that has stopped stays stopped.
CHECK_DEADLOCK FALSE
INVARIANTS
    TypeOK
    PermitsBalanced
    BytesBalanced
    QuietWhenStopped
PROPERTIES
    HeldToTheEnd
    ShutdownEnds
