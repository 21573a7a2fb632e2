CONSTANTS
    Input <- MCInput
    Outcomes <- ExactOutcomes
    Followed = {"function"}
    MaxCalls = 4
    MaxInstr = 5
SPECIFICATION Spec
INVARIANTS StackIsProgramStack ReadIsRecorded
PROPERTIES AttributedToRunning KeepsPromise
CHECK_DEADLOCK FALSE
