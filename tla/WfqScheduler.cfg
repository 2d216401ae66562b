SPECIFICATION Spec
CONSTANTS
    Weights <- SmallWeights
    Items = {x}
    None = None
    MaxLen = 2
INVARIANTS TypeOK BoundedWait IInv
PROPERTIES NoneMeansEmpty
