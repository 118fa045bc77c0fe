CONSTANTS
    Element <- MCElement
    key <- MCkey
    Capacity <- MCCapacity
SPECIFICATION Spec
INVARIANTS AlwaysHeapOrdered KeepsItsContent
PROPERTIES PopsTheLeast
