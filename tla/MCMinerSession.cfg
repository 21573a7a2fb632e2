CONSTANTS
    Texts <- AllTexts
    Shapes = {"l", "r", "e"}
    Seeds <- S
    Left = {"t", "s1"}
    Swaps <- AllSwaps
    Swap <- SwapOf
    Parses <- AllParses
    Parse <- ParseOf
    MaxDeaths = 2
SPECIFICATION Spec
INVARIANTS OnlyTheProgramConfirms TracesAreOwn BucketsAreConfirmed NoDeathNoError
PROPERTIES Finishes
CHECK_DEADLOCK FALSE
