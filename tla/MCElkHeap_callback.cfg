CONSTANTS
    Names <- Variables
    Imported = {"x"}
    Literals = {"func"}
    Size = 29
    CodeWords = 3
    MaxFrames = 1
SPECIFICATION Spec
INVARIANT CallbackCodeStays
CHECK_DEADLOCK FALSE
