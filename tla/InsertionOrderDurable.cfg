SPECIFICATION Spec
CONSTANTS
    Objects = {o1, o2}
    MaxSequence = 4
PROPERTY PublishedDurably
