SPECIFICATION FairSpec
CONSTANTS
    Publishers = {p1, p2}
    Readers = {}
    Short = Short
    Long = Long
    Longer = Longer
    NoDocument = NoDocument
    Documents <- MCDocuments
    Bytes <- MCBytes
    Total <- MCTotal
    MaxDownload = 2
    MaxBytes = 5
    MaxObjects = 2
    MaxSequence = 3
PROPERTIES
    ReservationsReturn
