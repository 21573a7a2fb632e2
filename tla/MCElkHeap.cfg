CONSTANTS
    Names <- Variables
    Imported = {"x"}
    Literals = {"obj", "func"}
    Size = 23
    CodeWords = 3
    MaxFrames = 3
SPECIFICATION Spec
INVARIANTS HeapSound ScopesNest CodeStays
PROPERTIES GcRelocates GlobalsStay
CHECK_DEADLOCK FALSE
