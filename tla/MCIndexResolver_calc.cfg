CONSTANTS
    Inputs <- CalcInputs
    Before <- CalcBefore
    MaxLen = 4
    Shown <- CalcShown
    DigitChars = {"1", "2"}
    LetterChars = {"x"}
    ChildMayFail = FALSE
SPECIFICATION Spec
INVARIANTS ReadIsFound FlowsTheSamePath
PROPERTY KeepsPromise
CHECK_DEADLOCK FALSE
