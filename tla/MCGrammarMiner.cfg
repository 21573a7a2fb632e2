CONSTANTS
    Forests <- AllForests
    Order <- Sorted
    MaxWord = 4
SPECIFICATION Spec
INVARIANTS LearnsTheLists KeepsLanguage NoCycleNothingLeft
CHECK_DEADLOCK FALSE
