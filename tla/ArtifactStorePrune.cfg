SPECIFICATION SpecStocked
CONSTANTS
    Publishers = {p1}
    Readers = {r1, r2}
    Short = Short
    Long = Long
    Longer = Longer
    NoDocument = NoDocument
    Documents <- MCThreeDocuments
    Bytes <- MCBytes
    Total <- MCTotal
    MaxDownload = 2
    MaxBytes = 3
    MaxObjects = 2
    MaxSequence = 5
SYMMETRY Symmetry
INVARIANTS
    PruneExact
    LeasedStays
PROPERTIES
    EvictsOldestFirst
