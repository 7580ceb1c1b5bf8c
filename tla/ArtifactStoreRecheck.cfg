SPECIFICATION Spec
CONSTANTS
    Publishers = {p1, p2}
    Readers = {r1, r2}
    Short = Short
    Long = Long
    Longer = Longer
    NoDocument = NoDocument
    Documents <- MCDocuments
    Bytes <- MCBytes
    Total <- MCTotal
    MaxDownload = 2
    MaxBytes = 4
    MaxObjects = 2
    MaxSequence = 4
SYMMETRY Symmetry
INVARIANTS
    ExactRecheck
