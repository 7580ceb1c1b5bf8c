SPECIFICATION Spec
CONSTANTS
    Publishers = {p1, p2}
    Readers = {r1}
    Short = Short
    Long = Long
    Longer = Longer
    NoDocument = NoDocument
    Documents <- MCDocuments
    Bytes <- MCBytes
    Total <- MCTotal
    MaxDownload = 2
    MaxBytes = 5
    MaxObjects = 2
    MaxSequence = 4
SYMMETRY Symmetry
INVARIANTS
    TypeOK
    DiskCovered
    StagingAccounted
    PromisesFit
    ObjectBudgetKept
PROPERTIES
    LatchHolds
    ImplementsEvictionOrder
