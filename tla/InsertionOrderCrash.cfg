SPECIFICATION Spec
CONSTANTS
    Objects = {o1, o2, o3}
    MaxSequence = 5
SYMMETRY Symmetry
INVARIANTS
    TypeOK
    RefusedOnlyWhenExhausted
PROPERTIES
    OrderSurvives
    ImplementsEvictionOrder
