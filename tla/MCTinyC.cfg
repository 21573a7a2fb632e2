CONSTANTS
    Texts <- AllTexts
    Id <- Vars
    Num <- Numbers
    Value <- ValueOf
    MaxSteps = 60
SPECIFICATION Spec
INVARIANTS OnInstructions ComputesMeaning ParsesGrammar
CHECK_DEADLOCK FALSE
