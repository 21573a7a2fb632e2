CONSTANTS
    Forests <- AllForests
    Order <- Sorted
    MaxWord = 4
SPECIFICATION Spec
INVARIANT StartIsUnused
CHECK_DEADLOCK FALSE
