CONSTANTS
    a = a
    b = b
    c = c
    DbLists <- MCDbLists
    MaxInits = 2
SPECIFICATION Spec
INVARIANTS TypeOK IteratorValid
PROPERTY Refinement
CHECK_DEADLOCK FALSE
