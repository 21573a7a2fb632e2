CONSTANTS
    Inputs <- CgiSmall
    Before <- CgiSmall
    MaxLen = 3
    Shown <- CgiShown
    DigitChars = {"1", "2"}
    LetterChars = {"x", "y"}
    ChildMayFail = TRUE
SPECIFICATION Spec
INVARIANT ReadIsFound
PROPERTIES StaleAddsNothing Finishes
CHECK_DEADLOCK FALSE
